---- MODULE Spec2Model ----
(***************************************************************************)
(* Datasource Federation Session Manager (DuckDBInstanceManager): the      *)
(* per-conversation engine instance, its connection pool, and the          *)
(* reconciliation of attached foreign databases and native views.          *)
(***************************************************************************)
EXTENDS Integers, Sequences, FiniteSets, Bags, TLC

\* ------------------------------------------------------------------------
\* Bounds and program constants
\* ------------------------------------------------------------------------

\* private readonly maxConnectionsPerInstance = 2
maxConnectionsPerInstance == 2

\* number of engine instances (session incarnations) ever created
MaxGen == 2

\* number of connections ever opened with instance.connect()
MaxHandles == 3

\* number of changes made outside the manager (repository edits, views dropped)
MaxEnvEdits == 1

\* number of syncDatasources / listAvailableSheets calls issued
MaxCalls == 3

\* concurrent callers of the manager (async call chains)
Procs == {"p1", "p2", "p3"}

\* ------------------------------------------------------------------------
\* Strings are sequences of one-character strings
\* ------------------------------------------------------------------------
UpperAlphabet ==
    <<"A", "B", "C", "D", "E", "F", "G", "H", "I", "J", "K", "L", "M",
      "N", "O", "P", "Q", "R", "S", "T", "U", "V", "W", "X", "Y", "Z">>
LowerAlphabet ==
    <<"a", "b", "c", "d", "e", "f", "g", "h", "i", "j", "k", "l", "m",
      "n", "o", "p", "q", "r", "s", "t", "u", "v", "w", "x", "y", "z">>
UpperChars == {UpperAlphabet[i] : i \in DOMAIN UpperAlphabet}
LowerChars == {LowerAlphabet[i] : i \in DOMAIN LowerAlphabet}
DigitChars == {"0", "1", "2", "3", "4", "5", "6", "7", "8", "9"}

IsLetter(c) == c \in UpperChars \cup LowerChars
IsWord(c) == IsLetter(c) \/ c \in DigitChars \/ c = "_"

\* String.prototype.toLowerCase on one character
\* a conversion that leaves every character as it is
ToLowerNot(c) == c

ToLower(c) ==
    IF c \in UpperChars
    THEN LowerAlphabet[CHOOSE i \in DOMAIN UpperAlphabet : UpperAlphabet[i] = c]
    ELSE c

\* String.prototype.toLowerCase
ToLowerCase(s) == [i \in 1..Len(s) |-> ToLower(s[i])]

\* s.replace(/x/g, y) for a one-character pattern x and a string y
RECURSIVE ReplaceAll(_, _, _)
ReplaceAll(s, x, y) ==
    IF s = <<>> THEN <<>>
    ELSE (IF Head(s) = x THEN y ELSE <<Head(s)>>) \o ReplaceAll(Tail(s), x, y)

\* name.trim()
RECURSIVE TrimLeft(_)
TrimLeft(s) == IF s # <<>> /\ Head(s) = " " THEN TrimLeft(Tail(s)) ELSE s
RECURSIVE TrimRight(_)
TrimRight(s) ==
    IF s # <<>> /\ s[Len(s)] = " " THEN TrimRight(SubSeq(s, 1, Len(s) - 1)) ELSE s
Trim(s) == TrimRight(TrimLeft(s))

\* trimmed.replace(/[^a-zA-Z0-9_]/g, '_')
ReplaceInvalid(s) == [i \in 1..Len(s) |-> IF IsWord(s[i]) THEN s[i] ELSE "_"]

\* cleaned.replace(/_+/g, '_')
RECURSIVE CollapseUnderscores(_)
CollapseUnderscores(s) ==
    IF Len(s) < 2 THEN s
    ELSE IF s[1] = "_" /\ s[2] = "_" THEN CollapseUnderscores(Tail(s))
    ELSE <<s[1]>> \o CollapseUnderscores(Tail(s))

\* cleaned.replace(/^_+|_+$/g, '')
RECURSIVE StripLeft(_)
StripLeft(s) == IF s # <<>> /\ Head(s) = "_" THEN StripLeft(Tail(s)) ELSE s
RECURSIVE StripRight(_)
StripRight(s) ==
    IF s # <<>> /\ s[Len(s)] = "_" THEN StripRight(SubSeq(s, 1, Len(s) - 1)) ELSE s
StripUnderscores(s) == StripRight(StripLeft(s))

\* the value standing for a thrown Error
Thrown == <<"#Error">>

\* sanitizeDatabaseName(name)
sanitizeDatabaseName(name) ==
    IF name = <<>> THEN Thrown
    ELSE IF Trim(name) = <<>> THEN Thrown
    ELSE LET cleaned == StripUnderscores(CollapseUnderscores(ReplaceInvalid(Trim(name))))
             prefixed == IF cleaned # <<>> /\ IsLetter(cleaned[1])
                         THEN cleaned
                         ELSE <<"d", "b", "_">> \o cleaned
             lowered == ToLowerCase(prefixed)
         IN IF lowered = <<>> THEN Thrown ELSE lowered

\* getDatasourceDatabaseName(datasource): the catalog name attach uses
getDatasourceDatabaseName(datasource) ==
    IF datasource.name = <<>> THEN Thrown
    ELSE sanitizeDatabaseName(datasource.name)

\* String.prototype.includes
Includes(s, sub) ==
    \E i \in 0..(Len(s) - Len(sub)) : SubSeq(s, i + 1, i + Len(sub)) = sub

\* x.replace(/"/g, '""'): escaping for a double-quoted SQL identifier
EscapeQuotes(s) == ReplaceAll(s, "\"", <<"\"", "\"">>)

\* the identifier the engine reads from the text between the double quotes
RECURSIVE EngineUnquote(_)
EngineUnquote(s) ==
    IF s = <<>> THEN <<>>
    ELSE IF Len(s) >= 2 /\ s[1] = "\"" /\ s[2] = "\""
         THEN <<"\"">> \o EngineUnquote(Tail(Tail(s)))
         ELSE <<s[1]>> \o EngineUnquote(Tail(s))

\* detachForeignDB: `ds_${datasourceId.replace(/-/g, '_')}`, then escaped
DetachDatabaseName(datasourceId) ==
    <<"d", "s", "_">> \o ReplaceAll(datasourceId, "-", <<"_">>)
DetachEscapedName(datasourceId) == EscapeQuotes(DetachDatabaseName(datasourceId))

\* ------------------------------------------------------------------------
\* Datasources known to the repository
\* ------------------------------------------------------------------------
IdA == <<"a", "-", "1">>
IdB == <<"b", "-", "2">>
IdC == <<"c", "-", "3">>
Ids == {IdA, IdB, IdC}

\* display names: A "Sales Db", B "Sheet", C "sales-db"
NameOf(d) ==
    CASE d = IdA -> <<"S", "a", "l", "e", "s", " ", "D", "b">>
      [] d = IdB -> <<"S", "h", "e", "e", "t">>
      [] OTHER -> <<"s", "a", "l", "e", "s", "-", "d", "b">>

\* the Datasource entity findById resolves an id to
Datasource(d) == [id |-> d, name |-> NameOf(d)]

\* getDatasourceDatabaseName of the datasources of the repository, by id
DatabaseNameOf == [d \in Ids |-> getDatasourceDatabaseName(Datasource(d))]

\* ViewNameOf without the datasource id
ViewNameFixed(d) == <<"v", "_">>

\* the view name datasourceToDuckdb produces for a datasource
ViewNameOf(d) == <<"v", "_">> \o ReplaceAll(d, "-", <<"_">>)

\* a Map with no entries
EmptyMap == [x \in {} |-> <<>>]
MapSet(f, k, v) == [x \in DOMAIN f \cup {k} |-> IF x = k THEN v ELSE f[x]]
MapDelete(f, k) == [x \in DOMAIN f \ {k} |-> f[x]]

\* ------------------------------------------------------------------------
\* State
\* ------------------------------------------------------------------------
VARIABLES
    instances,     \* Map<key, wrapper> for the one key modelled: 0 = no entry, else wrapper ref
    wrappers,      \* heap of DuckDBInstanceWrapper objects, by reference
    nextGen,       \* next wrapper reference to allocate
    nextConn,      \* next connection number to allocate
    closed,        \* connections on which closeSync() was called
    instOpen,      \* wrapper refs whose engine instance is open
    pc,            \* position of each caller in its async call chain
    op,            \* top-level operation a caller is running
    ret,           \* where getInstance returns to
    wref,          \* wrapper reference a caller obtained from getInstance
    held,          \* handles a caller acquired with getConnection and has not returned
    everReturned,  \* history: returnConnection has been called
    repo,          \* datasource repository: what findById resolves each id to
    envEdits,      \* number of changes made outside the manager so far
    calls,         \* number of sync / list calls issued so far
    catalogs,      \* catalog names attached in the engine instance
    engineViews,   \* view names that exist in the database
    conn,          \* the connection a sync / list call works on
    swrap,         \* the wrapper a sync / list call works on
    checked,       \* checkedDatasourceIds of the running sync
    foreignDatabases, \* ids groupDatasourcesByType classified foreign
    duckdbNative,  \* ids groupDatasourcesByType classified native
    phase,         \* loop of the running call: 1 detach, 2 drop, 3 attach, 4 create
    done,          \* ids the current loop has passed
    cur,           \* the item whose engine call is awaited
    pre,           \* history: registries when the running call started
    issued,        \* history: engine calls of the running call and their outcome
    sessions,      \* keys of the instances Map, as closeAll sees them
    caKeys,        \* closeAll: the keys array taken at its start
    caTodo,        \* closeAll: keys the loop has not reached yet
    caPc,          \* closeAll: position of the call
    started,       \* one-shot clients that have issued their getConnection
    outer,         \* the frame a nested syncDatasources call returns into
    tables,        \* listAvailableSheets: tables the second pass has yet to look up
    sheet,         \* renameSheet: oldSheetName and newSheetName of the running call
    registry,      \* Map<key, wrapper> over several keys: key -> wrapper ref
    clients,       \* (workspace, conversationId) pairs in use -> handles their user holds
    sheets,        \* listAvailableSheets: the entries of the list built so far, as a bag
    fnCall         \* the last call of a pure function: name, argument, result

poolVars == <<instances, wrappers, nextGen, nextConn, closed, instOpen>>
procVars == <<pc, op, ret, wref, held>>
envVars == <<repo, envEdits, catalogs, engineViews>>
callVars == <<calls, swrap, checked, foreignDatabases, duckdbNative, phase, done, cur,
              pre, issued>>
regVars == <<sessions, caKeys, caTodo, caPc>>
auxVars == <<registry, clients, sheets, fnCall>>
extVars == <<sessions, caKeys, caTodo, caPc, started, outer, tables, sheet,
            registry, clients, sheets, fnCall>>
vars == <<instances, wrappers, nextGen, nextConn, closed, instOpen,
          pc, op, ret, wref, held, everReturned,
          repo, envEdits, calls, catalogs, engineViews, conn, swrap, checked,
          foreignDatabases, duckdbNative, phase, done, cur, pre, issued,
          sessions, caKeys, caTodo, caPc, started, outer, tables, sheet,
          registry, clients, sheets, fnCall>>

Gens == 1..MaxGen

\* the wrapper literal built in getInstance
NewWrapper ==
    [connectionPool |-> <<>>,
     attachedDatasources |-> {},
     viewRegistry |-> EmptyMap,
     maxConnections |-> maxConnectionsPerInstance,
     activeConnections |-> 0]

NoConn == [gen |-> 0, n |-> 0]
NoItem == <<>>
NoCall == [fn |-> "none", arg |-> <<>>, res |-> <<>>]
NoFrame == [op |-> "none", conn |-> NoConn]
NoSheet == [oldSheetName |-> <<>>, newSheetName |-> <<>>]
NoPre == [attachedDatasources |-> {}, viewRegistry |-> EmptyMap]

Init ==
    /\ instances = 0
    /\ wrappers = [g \in Gens |-> NewWrapper]
    /\ nextGen = 1
    /\ nextConn = 1
    /\ closed = {}
    /\ instOpen = {}
    /\ pc = [p \in Procs |-> "idle"]
    /\ op = [p \in Procs |-> "none"]
    /\ ret = [p \in Procs |-> "idle"]
    /\ wref = [p \in Procs |-> 0]
    /\ held = [p \in Procs |-> {}]
    /\ everReturned = FALSE
    /\ repo = [d \in Ids |-> [present |-> TRUE,
                               kind |-> IF d = IdB THEN "native" ELSE "foreign"]]
    /\ envEdits = 0
    /\ calls = 0
    /\ catalogs = {}
    /\ engineViews = {}
    /\ conn = [p \in Procs |-> NoConn]
    /\ swrap = [p \in Procs |-> 0]
    /\ checked = [p \in Procs |-> {}]
    /\ foreignDatabases = [p \in Procs |-> {}]
    /\ duckdbNative = [p \in Procs |-> {}]
    /\ phase = [p \in Procs |-> 0]
    /\ done = [p \in Procs |-> {}]
    /\ cur = [p \in Procs |-> NoItem]
    /\ pre = [p \in Procs |-> NoPre]
    /\ issued = [p \in Procs |-> {}]
    /\ sessions = {}
    /\ caKeys = {}
    /\ caTodo = {}
    /\ caPc = "idle"
    /\ started = {}
    /\ outer = [p \in Procs |-> NoFrame]
    /\ tables = [p \in Procs |-> {}]
    /\ sheet = [p \in Procs |-> NoSheet]
    /\ registry = EmptyMap
    /\ clients = EmptyMap
    /\ sheets = [p \in Procs |-> EmptyBag]
    /\ fnCall = NoCall

\* ------------------------------------------------------------------------
\* getInstance
\* ------------------------------------------------------------------------

\* getInstance resolves with wrapper w: the awaiting caller resumes at r; a
\* direct caller (r = "idle") is done
GetInstanceReturn(p, r, w) ==
    /\ pc' = [pc EXCEPT ![p] = r]
    /\ wref' = [wref EXCEPT ![p] = IF r = "idle" THEN 0 ELSE w]
    /\ op' = [op EXCEPT ![p] = IF r = "idle" THEN "none" ELSE @]

\* synchronous head of getInstance, run inside the caller's step: the has(key)
\* test; o is the top-level operation, r the place the caller resumes at
GetInstanceEnter(p, o, r) ==
    IF instances # 0
    THEN /\ pc' = [pc EXCEPT ![p] = r]
         /\ wref' = [wref EXCEPT ![p] = IF r = "idle" THEN 0 ELSE instances]
         /\ op' = [op EXCEPT ![p] = IF r = "idle" THEN "none" ELSE o]
         /\ UNCHANGED ret
    ELSE /\ pc' = [pc EXCEPT ![p] = "gi_create"]
         /\ op' = [op EXCEPT ![p] = o]
         /\ ret' = [ret EXCEPT ![p] = r]
         /\ UNCHANGED wref

\* a caller invokes getInstance directly
CallGetInstance(p) ==
    /\ pc[p] = "idle"
    /\ GetInstanceEnter(p, "getInstance", "idle")
    /\ UNCHANGED <<poolVars, held, everReturned, envVars, callVars, conn>>
    /\ UNCHANGED extVars

\* after the awaits (import, mkdir, DuckDBInstance.create): build the wrapper
\* and instances.set(key, wrapper)
GetInstanceCreate(p) ==
    /\ pc[p] = "gi_create"
    /\ nextGen <= MaxGen
    /\ wrappers' = [wrappers EXCEPT ![nextGen] = NewWrapper]
    /\ instances' = nextGen
    /\ instOpen' = instOpen \cup {nextGen}
    /\ nextGen' = nextGen + 1
    /\ GetInstanceReturn(p, ret[p], nextGen)
    /\ ret' = [ret EXCEPT ![p] = "idle"]
    /\ UNCHANGED <<nextConn, closed, held, everReturned, envVars, callVars, conn>>
    /\ UNCHANGED extVars

\* ------------------------------------------------------------------------
\* getConnection
\* ------------------------------------------------------------------------

\* a caller invokes getConnection directly; the callers modelled here borrow
\* one handle at a time
CallGetConnection(p) ==
    /\ pc[p] = "idle"
    /\ held[p] = {}
    /\ GetInstanceEnter(p, "getConnection", "gc_check")
    /\ UNCHANGED <<poolVars, held, everReturned, envVars, callVars, conn>>
    /\ UNCHANGED extVars

\* the handle getConnection resolves with goes to the caller
Deliver(p, h) ==
    /\ wref' = [wref EXCEPT ![p] = 0]
    /\ IF op[p] = "getConnection"
       THEN /\ held' = [held EXCEPT ![p] = @ \cup {[conn |-> h, from |-> wref[p]]}]
            /\ pc' = [pc EXCEPT ![p] = "idle"]
            /\ op' = [op EXCEPT ![p] = "none"]
            /\ UNCHANGED conn
       ELSE /\ conn' = [conn EXCEPT ![p] = h]
            /\ pc' = [pc EXCEPT ![p] =
                     CASE op[p] = "sync" -> "sync_load"
                       [] op[p] = "list" -> "list_run"
                       [] op[p] = "list2" -> "list2_await"
                       [] op[p] = "schema" -> "schema_sync"
                       [] OTHER -> "rename_old"]
            /\ UNCHANGED <<held, op>>

\* UnderLimit with the comparison turned around
UnderLimitReversed(w) == w.activeConnections > w.maxConnections

\* the under-limit test of getConnection
UnderLimit(w) == w.activeConnections < w.maxConnections

\* Popped with the connection left in the pool
PoppedKept(pool) == pool

\* the pool after connectionPool.pop()
Popped(pool) == SubSeq(pool, 1, Len(pool) - 1)

\* after await getInstance: pop an idle connection, or decide to connect or wait
GetConnectionCheck(p) ==
    /\ pc[p] = "gc_check"
    /\ LET w == wrappers[wref[p]]
           n == Len(w.connectionPool)
       IN IF n > 0
          THEN /\ wrappers' = [wrappers EXCEPT ![wref[p]] =
                      [w EXCEPT !.connectionPool = Popped(w.connectionPool),
                                !.activeConnections = @ + 1]]
               /\ Deliver(p, w.connectionPool[n])
          ELSE /\ pc' = [pc EXCEPT ![p] =
                      IF UnderLimit(w) THEN "gc_connect" ELSE "gc_wait"]
               /\ UNCHANGED <<wrappers, held, op, wref, conn>>
    /\ UNCHANGED <<instances, nextGen, nextConn, closed, instOpen, ret, everReturned,
                   envVars, callVars>>
    /\ UNCHANGED extVars

\* after await wrapper.instance.connect(): count the connection and return it
GetConnectionConnected(p) ==
    /\ pc[p] = "gc_connect"
    /\ nextConn <= MaxHandles
    /\ wrappers' = [wrappers EXCEPT ![wref[p]].activeConnections = @ + 1]
    /\ nextConn' = nextConn + 1
    /\ Deliver(p, [gen |-> wref[p], n |-> nextConn])
    /\ UNCHANGED <<instances, nextGen, closed, instOpen, ret, everReturned,
                   envVars, callVars>>
    /\ UNCHANGED extVars

\* after the 100ms timer: return this.getConnection(...)
GetConnectionRetry(p) ==
    /\ pc[p] = "gc_wait"
    /\ GetInstanceEnter(p, op[p], "gc_check")
    /\ UNCHANGED <<poolVars, held, everReturned, envVars, callVars, conn>>
    /\ UNCHANGED extVars

\* ------------------------------------------------------------------------
\* returnConnection
\* ------------------------------------------------------------------------

\* activeConnections after the decrement and the clamp at zero
Decremented(n) == IF n - 1 < 0 THEN 0 ELSE n - 1

\* the effect of returnConnection(conversationId, workspace, h) on the registry
ReturnEffect(h) ==
    IF instances = 0
    THEN /\ closed' = closed \cup {h}
         /\ UNCHANGED wrappers
    ELSE /\ wrappers' = [wrappers EXCEPT ![instances] =
                [@ EXCEPT !.connectionPool = Append(@, h),
                          !.activeConnections = Decremented(@)]]
         /\ UNCHANGED closed

\* ReturnsOn with returnConnection as the last statement of the try block
ReturnsOnSuccessOnly(outcome) == outcome = "ok"

\* the finally blocks around the use of a connection: returnConnection runs
\* whether the try block ends normally or throws
ReturnsOn(outcome) == outcome \in {"ok", "throw"}

\* the effect of such a finally block holding handle h
FinallyReturn(outcome, h) ==
    IF ReturnsOn(outcome) THEN ReturnEffect(h) ELSE UNCHANGED <<wrappers, closed>>

\* a caller returns a handle it holds
ReturnConnection(p) ==
    /\ pc[p] = "idle"
    /\ \E e \in held[p] :
          /\ ReturnEffect(e.conn)
          /\ held' = [held EXCEPT ![p] = @ \ {e}]
    /\ everReturned' = TRUE
    /\ UNCHANGED <<instances, nextGen, nextConn, instOpen, pc, op, ret, wref,
                   envVars, callVars, conn>>
    /\ UNCHANGED extVars

\* ------------------------------------------------------------------------
\* closeInstance
\* ------------------------------------------------------------------------

RECURSIVE SeqToSet(_)
SeqToSet(s) == IF s = <<>> THEN {} ELSE {Head(s)} \cup SeqToSet(Tail(s))

\* CloseCaught with no try/catch around conn.closeSync()
CloseCaughtInstanceOnly(step) == step = "instance"

\* the try/catch blocks of closeInstance: around each conn.closeSync() and
\* around wrapper.instance.closeSync()
CloseCaught(step) == step \in {"connection", "instance"}

\* closeInstance on the key: without a wrapper it returns at once; else
\* closeSync on each pooled connection and on the instance, then
\* instances.delete(key). raisesAt is the position of the first pooled
\* connection whose closeSync raises (0: none), instRaises whether the
\* instance's closeSync raises; an error that is not caught ends the call
\* there and rejects its promise. The pool array is left as it is.
CloseInstance(p) ==
    /\ pc[p] = "idle"
    /\ IF instances = 0
       THEN UNCHANGED <<instances, closed, instOpen, pc>>
       ELSE LET pool == wrappers[instances].connectionPool
            IN \E raisesAt \in 0..Len(pool), instRaises \in BOOLEAN :
                  LET connAbort == raisesAt # 0 /\ ~CloseCaught("connection")
                      instAbort == ~connAbort /\ instRaises /\ ~CloseCaught("instance")
                  IN /\ closed' = closed \cup
                            (IF connAbort THEN SeqToSet(SubSeq(pool, 1, raisesAt))
                                          ELSE SeqToSet(pool))
                     /\ instOpen' = IF connAbort THEN instOpen ELSE instOpen \ {instances}
                     /\ instances' = IF connAbort \/ instAbort THEN instances ELSE 0
                     /\ pc' = [pc EXCEPT ![p] =
                              IF connAbort \/ instAbort THEN "close_rejected" ELSE @]
    /\ UNCHANGED <<wrappers, nextGen, nextConn, op, ret, wref, held, everReturned,
                   envVars, callVars, conn>>
    /\ UNCHANGED extVars

\* ------------------------------------------------------------------------
\* Specification of the pool under concurrent callers
\* ------------------------------------------------------------------------
Next ==
    \E p \in Procs :
        \/ CallGetInstance(p)
        \/ GetInstanceCreate(p)
        \/ CallGetConnection(p)
        \/ GetConnectionCheck(p)
        \/ GetConnectionConnected(p)
        \/ GetConnectionRetry(p)
        \/ ReturnConnection(p)

Spec == Init /\ [][Next]_vars

\* ------------------------------------------------------------------------
\* Specification of the session lifecycle: callers that also close the session
\* ------------------------------------------------------------------------
\* Two callers borrowing one handle each never meet the limit of two, so the
\* timed retry of getConnection is not a step here.
LifeProcs == {"p1", "p2"}

NextLife ==
    \E p \in LifeProcs :
        \/ CallGetInstance(p)
        \/ GetInstanceCreate(p)
        \/ CallGetConnection(p)
        \/ GetConnectionCheck(p)
        \/ GetConnectionConnected(p)
        \/ ReturnConnection(p)
        \/ CloseInstance(p)

SpecLife == Init /\ [][NextLife]_vars

\* ------------------------------------------------------------------------
\* syncDatasources
\* ------------------------------------------------------------------------

\* a caller invokes syncDatasources with the checked ids; the call runs up to
\* its first await, inside getInstance
CallSync(p) ==
    /\ pc[p] = "idle"
    /\ calls < MaxCalls
    /\ calls' = calls + 1
    /\ \E ids \in SUBSET Ids : checked' = [checked EXCEPT ![p] = ids]
    /\ GetInstanceEnter(p, "sync", "sync_acquire")
    /\ UNCHANGED <<poolVars, held, everReturned, envVars, conn, swrap,
                   foreignDatabases, duckdbNative, phase, done, cur, pre, issued>>
    /\ UNCHANGED extVars

\* after await getInstance: keep the wrapper, call getConnection
SyncAcquire(p) ==
    /\ pc[p] = "sync_acquire"
    /\ swrap' = [swrap EXCEPT ![p] = wref[p]]
    /\ GetInstanceEnter(p, "sync", "gc_check")
    /\ UNCHANGED <<poolVars, held, everReturned, envVars, conn, calls, checked,
                   foreignDatabases, duckdbNative, phase, done, cur, pre, issued>>
    /\ UNCHANGED extVars

\* loadDatasources: the ids findById resolves, in allDatasourceIds
Loaded(w, ids) ==
    {d \in ids \cup w.attachedDatasources \cup DOMAIN w.viewRegistry : repo[d].present}

\* groupDatasourcesByType: the loaded ids of one kind
OfKind(loaded, k) == {d \in loaded : repo[d].kind = k}

\* after await getConnection: checkedSet, currentAttached, currentViews, the load
\* and the grouping
SyncLoad(p) ==
    /\ pc[p] = "sync_load"
    /\ LET w == wrappers[swrap[p]]
           loaded == Loaded(w, checked[p])
       IN /\ foreignDatabases' = [foreignDatabases EXCEPT ![p] = OfKind(loaded, "foreign")]
          /\ duckdbNative' = [duckdbNative EXCEPT ![p] = OfKind(loaded, "native")]
          /\ pre' = [pre EXCEPT ![p] =
                       [attachedDatasources |-> w.attachedDatasources,
                        viewRegistry |-> w.viewRegistry]]
    /\ phase' = [phase EXCEPT ![p] = 1]
    /\ done' = [done EXCEPT ![p] = {}]
    /\ pc' = [pc EXCEPT ![p] = "sync_run"]
    /\ UNCHANGED <<poolVars, op, ret, wref, held, everReturned, envVars, conn, swrap,
                   calls, checked, cur, issued>>
    /\ UNCHANGED extVars

\* PendingIn with the create loop running over foreignDatabases
PendingInWrongList(p, ph, passed) ==
    LET w == wrappers[swrap[p]]
    IN CASE ph = 1 -> {d \in foreignDatabases[p] \ passed :
                          d \in w.attachedDatasources /\ d \notin checked[p]}
         [] ph = 2 -> {d \in DOMAIN w.viewRegistry \ passed : d \notin checked[p]}
         [] ph = 3 -> {d \in foreignDatabases[p] \ passed :
                          d \notin w.attachedDatasources /\ d \in checked[p]}
         [] ph = 4 -> {d \in foreignDatabases[p] \ passed :
                          d \notin DOMAIN w.viewRegistry /\ d \in checked[p]}
         [] OTHER -> {}

\* the ids the loop ph still has to act on, given the ids it has passed
PendingIn(p, ph, passed) ==
    LET w == wrappers[swrap[p]]
    IN CASE ph = 1 -> {d \in foreignDatabases[p] \ passed :
                          d \in w.attachedDatasources /\ d \notin checked[p]}
         [] ph = 2 -> {d \in DOMAIN w.viewRegistry \ passed : d \notin checked[p]}
         [] ph = 3 -> {d \in foreignDatabases[p] \ passed :
                          d \notin w.attachedDatasources /\ d \in checked[p]}
         [] ph = 4 -> {d \in duckdbNative[p] \ passed :
                          d \notin DOMAIN w.viewRegistry /\ d \in checked[p]}
         [] OTHER -> {}

Passed(p, ph) == IF ph = phase[p] THEN done[p] ELSE {}

\* NextPhase with the attach and create loops written ahead of the detach and
\* drop loops
NextPhaseAttachFirst(p) ==
    LET open == {ph \in 1..4 : PendingIn(p, ph, Passed(p, ph)) # {}}
    IN IF open = {} THEN 5 ELSE CHOOSE ph \in open : \A q \in open : ph >= q

\* the loop the call reaches next: the first one, from the current loop on,
\* with an id to act on (1 detach, 2 drop, 3 attach, 4 create); 5 when the
\* loops are over
NextPhase(p) ==
    LET open == {ph \in phase[p]..4 : PendingIn(p, ph, Passed(p, ph)) # {}}
    IN IF open = {} THEN 5 ELSE CHOOSE ph \in open : \A q \in open : ph <= q

\* the call reaches the engine call of its next item and awaits it
SyncIssue(p) ==
    /\ pc[p] = "sync_run"
    /\ NextPhase(p) <= 4
    /\ LET ph == NextPhase(p)
       IN \E d \in PendingIn(p, ph, Passed(p, ph)) :
             /\ cur' = [cur EXCEPT ![p] =
                   IF ph = 2 THEN <<ph, d, wrappers[swrap[p]].viewRegistry[d]>>
                             ELSE <<ph, d>>]
             /\ done' = [done EXCEPT ![p] = Passed(p, ph) \cup {d}]
             /\ phase' = [phase EXCEPT ![p] = ph]
    /\ pc' = [pc EXCEPT ![p] = "sync_await"]
    /\ UNCHANGED <<poolVars, op, ret, wref, held, everReturned, envVars, conn, swrap,
                   calls, checked, foreignDatabases, duckdbNative, pre, issued>>
    /\ UNCHANGED extVars

Record(p, r) == issued' = [issued EXCEPT ![p] = @ \cup {r}]

\* CatchesItemError with no try/catch in the attach loop
CatchesOnlyViewErrors(ph) == ph \in {2, 4}

\* the try/catch around the engine call of a loop: the drop, attach and create
\* loops catch and log what their call throws
CatchesItemError(ph) == ph \in {2, 3, 4}

\* the call resumes after the awaited engine call: a caught error lets the loop
\* go on, an uncaught one leaves the loops for the finally block
Resumed(p, failed) ==
    /\ pc' = [pc EXCEPT ![p] =
            IF failed /\ ~CatchesItemError(cur[p][1]) THEN "sync_abort" ELSE "sync_run"]
    /\ cur' = [cur EXCEPT ![p] = NoItem]

\* what DETACH "<name>" does in the engine
DetachResult(name, engineOk) ==
    IF name \notin catalogs THEN "not_found"
    ELSE IF engineOk THEN "ok" ELSE "error"

\* detachForeignDB: the DETACH statement on the derived name; its catch logs
\* every error, so the call never raises
detachForeignDB(datasourceId, engineOk) ==
    LET name == EngineUnquote(DetachEscapedName(datasourceId))
    IN [arg |-> name, res |-> DetachResult(name, engineOk), raised |-> FALSE]

\* detachForeignDB returns, then currentAttached.delete
SyncDetachResume(p) ==
    /\ pc[p] = "sync_await"
    /\ cur[p][1] = 1
    /\ \E engineOk \in BOOLEAN :
          LET d == cur[p][2]
              a == detachForeignDB(d, engineOk)
          IN /\ catalogs' = IF a.res = "ok" THEN catalogs \ {a.arg} ELSE catalogs
             /\ wrappers' = IF a.raised THEN wrappers
                            ELSE [wrappers EXCEPT ![swrap[p]].attachedDatasources = @ \ {d}]
             /\ Record(p, [stmt |-> "DETACH", ds |-> d, arg |-> a.arg, res |-> a.res,
                           raised |-> a.raised, enumFailed |-> FALSE])
             /\ Resumed(p, a.raised)
    /\ UNCHANGED <<instances, nextGen, nextConn, closed, instOpen, op, ret, wref, held,
                   everReturned, repo, envEdits, engineViews, conn, swrap, calls,
                   checked, foreignDatabases, duckdbNative, phase, done, pre>>
    /\ UNCHANGED extVars

\* DROP VIEW IF EXISTS resolves: currentViews.delete; it rejects: the catch logs
SyncDropResume(p) ==
    /\ pc[p] = "sync_await"
    /\ cur[p][1] = 2
    /\ \E engineOk \in BOOLEAN :
          LET d == cur[p][2]
              name == EngineUnquote(EscapeQuotes(cur[p][3]))
          IN /\ engineViews' = IF engineOk THEN engineViews \ {name} ELSE engineViews
             /\ wrappers' = IF engineOk
                            THEN [wrappers EXCEPT ![swrap[p]].viewRegistry = MapDelete(@, d)]
                            ELSE wrappers
             /\ Record(p, [stmt |-> "DROP", ds |-> d, arg |-> name,
                           res |-> IF engineOk THEN "ok" ELSE "error",
                           raised |-> ~engineOk, enumFailed |-> FALSE])
             /\ Resumed(p, ~engineOk)
    /\ UNCHANGED <<instances, nextGen, nextConn, closed, instOpen, op, ret, wref, held,
                   everReturned, repo, envEdits, catalogs, conn, swrap, calls,
                   checked, foreignDatabases, duckdbNative, phase, done, pre>>
    /\ UNCHANGED extVars

\* what the ATTACH statement does in the engine
AttachResult(name, engineOk) ==
    IF name \in catalogs THEN "already"
    ELSE IF engineOk THEN "ok" ELSE "error"

\* AttachTolerated with every ATTACH error rethrown
AttachToleratedNone(res) == res = "ok"

\* the catch around the ATTACH statement: 'already attached' / 'already exists'
\* is not rethrown
AttachTolerated(res) == res \in {"ok", "already"}

\* attachForeignDatasource: before is FALSE when a step ahead of the ATTACH
\* statement throws (provider mapping, extension, connection string, name);
\* enumOk is FALSE when the table enumeration after it throws.
\* The result: the statement's outcome, whether the call raises, and whether
\* the enumeration ran and threw.
attachForeignDatasource(datasource, before, engineOk, enumOk) ==
    LET name == DatabaseNameOf[datasource.id]
    IN IF ~before \/ name = Thrown
       THEN [arg |-> name, res |-> "not_run", raised |-> TRUE, enumFailed |-> FALSE]
       ELSE LET res == AttachResult(name, engineOk)
            IN IF ~AttachTolerated(res)
               THEN [arg |-> name, res |-> res, raised |-> TRUE, enumFailed |-> FALSE]
               ELSE [arg |-> name, res |-> res, raised |-> ~enumOk,
                     enumFailed |-> ~enumOk]

\* attachForeignDatasource resolves: currentAttached.add; it rejects: the catch logs
SyncAttachResume(p) ==
    /\ pc[p] = "sync_await"
    /\ cur[p][1] = 3
    /\ \E before \in BOOLEAN, engineOk \in BOOLEAN, enumOk \in BOOLEAN :
          LET d == cur[p][2]
              a == attachForeignDatasource(Datasource(d), before, engineOk, enumOk)
          IN /\ catalogs' = IF a.res = "ok" THEN catalogs \cup {a.arg} ELSE catalogs
             /\ wrappers' = IF a.raised THEN wrappers
                            ELSE [wrappers EXCEPT ![swrap[p]].attachedDatasources = @ \cup {d}]
             /\ Record(p, [stmt |-> "ATTACH", ds |-> d, arg |-> a.arg, res |-> a.res,
                           raised |-> a.raised, enumFailed |-> a.enumFailed])
             /\ Resumed(p, a.raised)
    /\ UNCHANGED <<instances, nextGen, nextConn, closed, instOpen, op, ret, wref, held,
                   everReturned, repo, envEdits, engineViews, conn, swrap, calls,
                   checked, foreignDatabases, duckdbNative, phase, done, pre>>
    /\ UNCHANGED extVars

\* datasourceToDuckdb resolves: currentViews.set(dsId, result.viewName); it
\* rejects: the catch logs
SyncCreateResume(p) ==
    /\ pc[p] = "sync_await"
    /\ cur[p][1] = 4
    /\ \E engineOk \in BOOLEAN :
          LET d == cur[p][2]
              name == ViewNameOf(d)
          IN /\ engineViews' = IF engineOk THEN engineViews \cup {name} ELSE engineViews
             /\ wrappers' = IF engineOk
                            THEN [wrappers EXCEPT ![swrap[p]].viewRegistry = MapSet(@, d, name)]
                            ELSE wrappers
             /\ Record(p, [stmt |-> "CREATE", ds |-> d, arg |-> name,
                           res |-> IF engineOk THEN "ok" ELSE "error",
                           raised |-> ~engineOk, enumFailed |-> FALSE])
             /\ Resumed(p, ~engineOk)
    /\ UNCHANGED <<instances, nextGen, nextConn, closed, instOpen, op, ret, wref, held,
                   everReturned, repo, envEdits, catalogs, conn, swrap, calls,
                   checked, foreignDatabases, duckdbNative, phase, done, pre>>
    /\ UNCHANGED extVars

\* the loops are over, or an error left them: finally returnConnection, and the
\* promise resolves, or rejects with the error
SyncFinally(p) ==
    /\ \/ pc[p] = "sync_run" /\ NextPhase(p) = 5
       \/ pc[p] = "sync_abort"
    /\ FinallyReturn(IF pc[p] = "sync_abort" THEN "throw" ELSE "ok", conn[p])
    /\ everReturned' = TRUE
    /\ pc' = [pc EXCEPT ![p] = IF pc[p] = "sync_abort" THEN "sync_rejected" ELSE "sync_done"]
    /\ phase' = [phase EXCEPT ![p] = 5]
    /\ UNCHANGED <<instances, nextGen, nextConn, instOpen, op, ret, wref, held,
                   envVars, conn, swrap, calls, checked, foreignDatabases,
                   duckdbNative, done, cur, pre, issued>>
    /\ UNCHANGED extVars

\* positions at which an operation has settled its promise
Finished ==
    {"sync_done", "sync_rejected", "list_done", "rename_done", "rename_rejected",
     "schema_done", "schema_rejected"}

\* the awaiting caller resumes with the result; the locals of the call are
\* gone. A syncDatasources call made by the getSchema tool returns into the
\* tool, which catches what the call throws
CallReturn(p) ==
    /\ pc[p] \in Finished
    /\ pc' = [pc EXCEPT ![p] = IF outer[p].op = "schema" THEN "schema_body" ELSE "idle"]
    /\ op' = [op EXCEPT ![p] = outer[p].op]
    /\ conn' = [conn EXCEPT ![p] = outer[p].conn]
    /\ outer' = [outer EXCEPT ![p] = NoFrame]
    /\ sheet' = [sheet EXCEPT ![p] = NoSheet]
    /\ sheets' = [sheets EXCEPT ![p] = EmptyBag]
    /\ swrap' = [swrap EXCEPT ![p] = 0]
    /\ checked' = [checked EXCEPT ![p] = {}]
    /\ foreignDatabases' = [foreignDatabases EXCEPT ![p] = {}]
    /\ duckdbNative' = [duckdbNative EXCEPT ![p] = {}]
    /\ phase' = [phase EXCEPT ![p] = 0]
    /\ done' = [done EXCEPT ![p] = {}]
    /\ cur' = [cur EXCEPT ![p] = NoItem]
    /\ pre' = [pre EXCEPT ![p] = NoPre]
    /\ issued' = [issued EXCEPT ![p] = {}]
    /\ UNCHANGED <<poolVars, ret, wref, held, everReturned, envVars, calls>>
    /\ UNCHANGED <<regVars, started, tables, registry, clients, fnCall>>

\* ------------------------------------------------------------------------
\* listAvailableSheets: the pass over viewRegistry, then the pass over the
\* tables listAllTables reports
\* ------------------------------------------------------------------------

\* getWrapper; without a session the call returns an empty list at once
CallList(p) ==
    /\ pc[p] = "idle"
    /\ calls < MaxCalls
    /\ calls' = calls + 1
    /\ IF instances = 0
       THEN UNCHANGED <<pc, op, swrap>>
       ELSE /\ pc' = [pc EXCEPT ![p] = "list_acquire"]
            /\ op' = [op EXCEPT ![p] = "list"]
            /\ swrap' = [swrap EXCEPT ![p] = instances]
    /\ sheets' = [sheets EXCEPT ![p] = EmptyBag]
    /\ UNCHANGED <<poolVars, ret, wref, held, everReturned, envVars, conn, checked,
                   foreignDatabases, duckdbNative, phase, done, cur, pre, issued>>
    /\ UNCHANGED <<regVars, started, outer, tables, sheet, registry, clients, fnCall>>

\* after the findById lookups: call getConnection
ListAcquire(p) ==
    /\ pc[p] = "list_acquire"
    /\ GetInstanceEnter(p, "list", "gc_check")
    /\ UNCHANGED <<poolVars, held, everReturned, envVars, callVars, conn>>
    /\ UNCHANGED extVars

\* the loop over viewRegistry.entries() reaches the probe of its next entry
ListIssue(p) ==
    /\ pc[p] = "list_run"
    /\ LET reg == wrappers[swrap[p]].viewRegistry
       IN \E d \in DOMAIN reg \ done[p] :
             /\ cur' = [cur EXCEPT ![p] = <<0, d, reg[d]>>]
             /\ done' = [done EXCEPT ![p] = @ \cup {d}]
    /\ pc' = [pc EXCEPT ![p] = "list_await"]
    /\ UNCHANGED <<poolVars, op, ret, wref, held, everReturned, envVars, conn, swrap,
                   calls, checked, foreignDatabases, duckdbNative, phase, pre, issued>>
    /\ UNCHANGED extVars

\* SELECT 1 FROM "<view>" LIMIT 1 answers when the view exists and the engine
\* raises nothing else
ProbeAnswers(viewName, engineOk) ==
    EngineUnquote(EscapeQuotes(viewName)) \in engineViews /\ engineOk

\* `undefined` in an entry of the list
Undefined == <<>>

\* sheets.push({...}): the fields of an entry that tell entries apart
SheetInfo(name, type, datasourceId, fullPath) ==
    [name |-> name, type |-> type, datasourceId |-> datasourceId, fullPath |-> fullPath]

Push(list, entry) == list (+) SetToBag({entry})

\* the probe resolves: the entry is emitted; it rejects: viewRegistry.delete
ListProbeResume(p) ==
    /\ pc[p] = "list_await"
    /\ \E engineOk \in BOOLEAN :
          LET d == cur[p][2]
              ok == ProbeAnswers(cur[p][3], engineOk)
          IN /\ wrappers' = IF ok THEN wrappers
                            ELSE [wrappers EXCEPT ![swrap[p]].viewRegistry = MapDelete(@, d)]
             /\ sheets' = IF ok
                          THEN [sheets EXCEPT ![p] =
                                  Push(@, SheetInfo(cur[p][3], "view", d, Undefined))]
                          ELSE sheets
             /\ Record(p, [stmt |-> "PROBE", ds |-> d, arg |-> cur[p][3],
                           res |-> IF ok THEN "ok" ELSE "error",
                           raised |-> ~ok, enumFailed |-> FALSE])
    /\ pc' = [pc EXCEPT ![p] = "list_run"]
    /\ cur' = [cur EXCEPT ![p] = NoItem]
    /\ UNCHANGED <<instances, nextGen, nextConn, closed, instOpen, op, ret, wref, held,
                   everReturned, envVars, conn, swrap, calls, checked,
                   foreignDatabases, duckdbNative, phase, done, pre>>
    /\ UNCHANGED <<regVars, started, outer, tables, sheet, registry, clients, fnCall>>

\* the loop is over: finally returnConnection
ListFinally(p) ==
    /\ pc[p] = "list_run"
    /\ DOMAIN wrappers[swrap[p]].viewRegistry \ done[p] = {}
    /\ FinallyReturn("ok", conn[p])
    /\ everReturned' = TRUE
    /\ pc' = [pc EXCEPT ![p] = "list_tables"]
    /\ UNCHANGED <<instances, nextGen, nextConn, instOpen, op, ret, wref, held,
                   envVars, conn, swrap, calls, checked, foreignDatabases,
                   duckdbNative, phase, done, cur, pre, issued>>
    /\ UNCHANGED extVars

\* listAllTables: the views of the main database under their simple name,
\* and a table of each attached catalog under its qualified name
AttachedTables == {c \o <<".", "m", ".", "t">> : c \in catalogs}
ListAllTables == engineViews \cup AttachedTables

RECURSIVE MapValues(_)
MapValues(f) ==
    IF DOMAIN f = {} THEN {}
    ELSE LET k == CHOOSE x \in DOMAIN f : TRUE
         IN {f[k]} \cup MapValues(MapDelete(f, k))

\* the tables the second loop does not skip: `if
\* (viewRegistryViewNames.has(table)) continue`
SecondPassTables(allTables, viewRegistryViewNames) == allTables \ viewRegistryViewNames

\* table.split('.')
RECURSIVE SplitDots(_, _)
SplitDots(s, part) ==
    IF s = <<>> THEN <<part>>
    ELSE IF Head(s) = "." THEN <<part>> \o SplitDots(Tail(s), <<>>)
    ELSE SplitDots(Tail(s), Append(part, Head(s)))

\* .filter(Boolean)
NonEmptyParts(parts) == SelectSeq(parts, LAMBDA x : x # <<>>)

\* parts.slice(2).join('.')
RECURSIVE JoinDots(_)
JoinDots(parts) ==
    IF parts = <<>> THEN <<>>
    ELSE IF Len(parts) = 1 THEN parts[1]
    ELSE parts[1] \o <<".">> \o JoinDots(Tail(parts))

\* idPart.split('_')
RECURSIVE SplitUnderscores(_, _)
SplitUnderscores(s, part) ==
    IF s = <<>> THEN <<part>>
    ELSE IF Head(s) = "_" THEN <<part>> \o SplitUnderscores(Tail(s), <<>>)
    ELSE SplitUnderscores(Tail(s), Append(part, Head(s)))

\* parts.slice(4).join('')
RECURSIVE JoinPlain(_)
JoinPlain(parts) == IF parts = <<>> THEN <<>> ELSE Head(parts) \o JoinPlain(Tail(parts))

\* the datasource id read back from a catalog name of the form ds_<id with
\* '_' for '-'>, or null
extractDatasourceIdFromDbName(dbName) ==
    IF ~(Len(dbName) >= 3 /\ SubSeq(dbName, 1, 3) = <<"d", "s", "_">>)
    THEN [null |-> TRUE]
    ELSE LET parts == SplitUnderscores(SubSeq(dbName, 4, Len(dbName)), <<>>)
         IN IF Len(parts) >= 5
            THEN [id |-> parts[1] \o <<"-">> \o parts[2] \o <<"-">> \o parts[3] \o <<"-">>
                         \o parts[4] \o <<"-">> \o JoinPlain(SubSeq(parts, 5, Len(parts)))]
            ELSE [null |-> TRUE]

\* dsId || undefined
IdOrUndefined(dsId) ==
    IF "id" \in DOMAIN dsId /\ dsId.id # <<>> THEN dsId.id ELSE Undefined

\* what the second loop pushes for a table with '.' in its name, as a set
\* of at most one entry
QualifiedEntry(table) ==
    LET parts == NonEmptyParts(SplitDots(table, <<>>))
    IN IF Len(parts) >= 3
       THEN {SheetInfo(JoinDots(SubSeq(parts, 3, Len(parts))), "attached_table",
                       IdOrUndefined(extractDatasourceIdFromDbName(parts[1])), table)}
       ELSE IF Len(parts) = 2
            THEN {SheetInfo(parts[2], "attached_table", Undefined, table)}
            ELSE {SheetInfo(table, "view", Undefined, Undefined)}

\* the entries of a set of qualified names
RECURSIVE QualifiedEntries(_)
QualifiedEntries(ts) ==
    IF ts = {} THEN EmptyBag
    ELSE LET t == CHOOSE x \in ts : TRUE
         IN SetToBag(QualifiedEntry(t)) (+) QualifiedEntries(ts \ {t})

\* after await listAllTables: viewRegistryViewNames and the second loop. The
\* loop awaits nothing for a name with '.' in it, so these entries are pushed
\* here; the simple names are left for the look-ups that follow
ListTables(p) ==
    /\ pc[p] = "list_tables"
    /\ LET left == SecondPassTables(ListAllTables,
                                    MapValues(wrappers[swrap[p]].viewRegistry))
           qualified == {t \in left : Includes(t, <<".">>)}
       IN /\ tables' = [tables EXCEPT ![p] = left \ qualified]
          /\ sheets' = [sheets EXCEPT ![p] = @ (+) QualifiedEntries(qualified)]
    /\ pc' = [pc EXCEPT ![p] = "list_second"]
    /\ UNCHANGED <<poolVars, op, ret, wref, held, everReturned, envVars, callVars,
                   conn, regVars, started, outer, sheet, registry, clients, fnCall>>

\* the second loop reaches a simple name: conn2 = await getConnection
ListSecondIssue(p) ==
    /\ pc[p] = "list_second"
    /\ \E t \in tables[p] :
          /\ tables' = [tables EXCEPT ![p] = @ \ {t}]
          /\ cur' = [cur EXCEPT ![p] = <<5, t>>]
    /\ GetInstanceEnter(p, "list2", "gc_check")
    /\ UNCHANGED <<poolVars, held, everReturned, envVars, conn, calls, swrap, checked,
                   foreignDatabases, duckdbNative, phase, done, pre, issued,
                   regVars, started, outer, sheet, auxVars>>

\* the table_type query on conn2 resolves (a view, or a table) or rejects
\* (caught: listed as a view); finally returnConnection(conn2)
ListSecondResume(p) ==
    /\ pc[p] = "list2_await"
    /\ \E outcome \in {"ok", "throw"}, tableType \in {"view", "table"} :
          /\ outcome = "throw" => tableType = "view"
          /\ FinallyReturn(outcome, conn[p])
          /\ sheets' = [sheets EXCEPT ![p] =
                          Push(@, SheetInfo(cur[p][2], tableType, Undefined, Undefined))]
    /\ cur' = [cur EXCEPT ![p] = NoItem]
    /\ pc' = [pc EXCEPT ![p] = "list_second"]
    /\ UNCHANGED <<instances, nextGen, nextConn, instOpen, op, ret, wref, held,
                   everReturned, envVars, conn, calls, swrap, checked,
                   foreignDatabases, duckdbNative, phase, done, pre, issued,
                   regVars, started, outer, tables, sheet, registry, clients, fnCall>>

\* the second loop is over: the list is returned
ListDone(p) ==
    /\ pc[p] = "list_second"
    /\ tables[p] = {}
    /\ pc' = [pc EXCEPT ![p] = "list_done"]
    /\ UNCHANGED <<poolVars, op, ret, wref, held, everReturned, envVars, callVars,
                   conn, extVars>>

\* ------------------------------------------------------------------------
\* What happens outside the manager
\* ------------------------------------------------------------------------

\* the changes modelled happen between the calls of the manager's callers
BetweenCalls == \A p \in Procs : pc[p] = "idle"

\* a datasource's provider is edited: its classification changes
RepoReclassify ==
    /\ BetweenCalls
    /\ envEdits < MaxEnvEdits
    /\ envEdits' = envEdits + 1
    /\ \E d \in Ids :
          repo' = [repo EXCEPT ![d].kind = IF @ = "foreign" THEN "native" ELSE "foreign"]
    /\ UNCHANGED <<poolVars, procVars, everReturned, catalogs, engineViews, callVars, conn>>
    /\ UNCHANGED extVars

\* a datasource is deleted from the repository: findById no longer resolves it
RepoRemove ==
    /\ BetweenCalls
    /\ envEdits < MaxEnvEdits
    /\ envEdits' = envEdits + 1
    /\ \E d \in Ids :
          /\ repo[d].present
          /\ repo' = [repo EXCEPT ![d].present = FALSE]
    /\ UNCHANGED <<poolVars, procVars, everReturned, catalogs, engineViews, callVars, conn>>
    /\ UNCHANGED extVars

\* a view is dropped outside the manager
ExternalDropView ==
    /\ BetweenCalls
    /\ envEdits < MaxEnvEdits
    /\ envEdits' = envEdits + 1
    /\ \E v \in engineViews : engineViews' = engineViews \ {v}
    /\ UNCHANGED <<poolVars, procVars, everReturned, repo, catalogs, callVars, conn>>
    /\ UNCHANGED extVars

\* ------------------------------------------------------------------------
\* Specification of reconciliation: one caller issuing sync and list calls one
\* after the other, against a repository and a database that change
\* ------------------------------------------------------------------------
SyncProcs == {"p1"}

NextSync ==
    \/ \E p \in SyncProcs :
        \/ CallSync(p)
        \/ SyncAcquire(p)
        \/ GetInstanceCreate(p)
        \/ GetConnectionCheck(p)
        \/ GetConnectionConnected(p)
        \/ SyncLoad(p)
        \/ SyncIssue(p)
        \/ SyncDetachResume(p)
        \/ SyncDropResume(p)
        \/ SyncAttachResume(p)
        \/ SyncCreateResume(p)
        \/ SyncFinally(p)
        \/ CallList(p)
        \/ ListAcquire(p)
        \/ ListIssue(p)
        \/ ListProbeResume(p)
        \/ ListFinally(p)
        \/ ListTables(p)
        \/ ListSecondIssue(p)
        \/ ListSecondResume(p)
        \/ ListDone(p)
        \/ CallReturn(p)
    \/ RepoReclassify
    \/ RepoRemove
    \/ ExternalDropView

SpecSync == Init /\ [][NextSync]_vars

\* ------------------------------------------------------------------------
\* Specification of the pool with fair scheduling: the continuations of a
\* getConnection call (after its awaits and after its timer) always get to
\* run; whether and when a caller returns a handle is up to the caller
\* ------------------------------------------------------------------------
CallSteps(p) ==
    \/ GetInstanceCreate(p)
    \/ GetConnectionCheck(p)
    \/ GetConnectionConnected(p)
    \/ GetConnectionRetry(p)

SpecPoolFair == Spec /\ \A p \in Procs : WF_vars(CallSteps(p))

\* ------------------------------------------------------------------------
\* Specification of concurrent clients of one existing session: each client
\* acquires one connection, runs its query and returns the connection
\* ------------------------------------------------------------------------
InitClients ==
    /\ instances = 1
    /\ wrappers = [g \in Gens |-> NewWrapper]
    /\ nextGen = 2
    /\ nextConn = 1
    /\ closed = {}
    /\ instOpen = {1}
    /\ pc = [p \in Procs |-> "idle"]
    /\ op = [p \in Procs |-> "none"]
    /\ ret = [p \in Procs |-> "idle"]
    /\ wref = [p \in Procs |-> 0]
    /\ held = [p \in Procs |-> {}]
    /\ everReturned = FALSE
    /\ repo = [d \in Ids |-> [present |-> TRUE,
                               kind |-> IF d = IdB THEN "native" ELSE "foreign"]]
    /\ envEdits = 0
    /\ calls = 0
    /\ catalogs = {}
    /\ engineViews = {}
    /\ conn = [p \in Procs |-> NoConn]
    /\ swrap = [p \in Procs |-> 0]
    /\ checked = [p \in Procs |-> {}]
    /\ foreignDatabases = [p \in Procs |-> {}]
    /\ duckdbNative = [p \in Procs |-> {}]
    /\ phase = [p \in Procs |-> 0]
    /\ done = [p \in Procs |-> {}]
    /\ cur = [p \in Procs |-> NoItem]
    /\ pre = [p \in Procs |-> NoPre]
    /\ issued = [p \in Procs |-> {}]
    /\ sessions = {}
    /\ caKeys = {}
    /\ caTodo = {}
    /\ caPc = "idle"
    /\ started = {}
    /\ outer = [p \in Procs |-> NoFrame]
    /\ tables = [p \in Procs |-> {}]
    /\ sheet = [p \in Procs |-> NoSheet]
    /\ registry = EmptyMap
    /\ clients = EmptyMap
    /\ sheets = [p \in Procs |-> EmptyBag]
    /\ fnCall = NoCall

\* a client issues its one getConnection
ClientAcquire(p) ==
    /\ pc[p] = "idle"
    /\ p \notin started
    /\ started' = started \cup {p}
    /\ GetInstanceEnter(p, "getConnection", "gc_check")
    /\ UNCHANGED <<poolVars, held, everReturned, envVars, callVars, conn,
                   regVars, outer, tables, sheet, auxVars>>

ClientSteps(p) ==
    \/ ClientAcquire(p)
    \/ GetConnectionCheck(p)
    \/ GetConnectionConnected(p)
    \/ GetConnectionRetry(p)
    \/ ReturnConnection(p)

NextClients == \E p \in Procs : ClientSteps(p)

SpecClients ==
    InitClients /\ [][NextClients]_vars /\ \A p \in Procs : WF_vars(ClientSteps(p))

\* ------------------------------------------------------------------------
\* closeAll, over a registry of several keys
\* ------------------------------------------------------------------------

\* most sessions open at once
MaxSessions == 2

Workspaces == {<<>>, <<"w">>, <<"c">>, <<"c", ":", "d">>}
ConversationIds == {<<>>, <<"x">>, <<"d", ":", "x">>, <<"a", ":", "b">>}

\* `${workspace}:${conversationId}`
KeyOf(workspace, conversationId) == workspace \o <<":">> \o conversationId

\* key.split(':'): the parts between the separators, in order
RECURSIVE SplitAcc(_, _)
SplitAcc(s, part) ==
    IF s = <<>> THEN <<part>>
    ELSE IF Head(s) = ":" THEN <<part>> \o SplitAcc(Tail(s), <<>>)
    ELSE SplitAcc(Tail(s), Append(part, Head(s)))

Split(key) == SplitAcc(key, <<>>)

\* parts.join(':')
RECURSIVE Join(_)
Join(parts) ==
    IF parts = <<>> THEN <<>>
    ELSE IF Len(parts) = 1 THEN parts[1]
    ELSE parts[1] \o <<":">> \o Join(Tail(parts))

\* the keys the body of closeAll's loop calls closeInstance on, for one key of
\* the array: none when the split gives an empty workspace or conversation id
ClosedFor(key) ==
    LET parts == Split(key)
    IN IF Len(parts) >= 2
       THEN LET workspace == parts[1]
                conversationId == Join(Tail(parts))
            IN IF workspace # <<>> /\ conversationId # <<>>
               THEN {KeyOf(workspace, conversationId)}
               ELSE {}
       ELSE {}

\* getInstance for some workspace and conversation id registers its key
OpenSession ==
    /\ caPc = "idle"
    /\ Cardinality(sessions) < MaxSessions
    /\ \E workspace \in Workspaces, conversationId \in ConversationIds :
          sessions' = sessions \cup {KeyOf(workspace, conversationId)}
    /\ UNCHANGED <<poolVars, procVars, everReturned, envVars, callVars, conn,
                   caKeys, caTodo, caPc, started, outer, tables, sheet, auxVars>>

\* closeAll is called: keys = Array.from(this.instances.keys())
CloseAllStart ==
    /\ caPc = "idle"
    /\ caKeys' = sessions
    /\ caTodo' = sessions
    /\ caPc' = "loop"
    /\ UNCHANGED <<poolVars, procVars, everReturned, envVars, callVars, conn,
                   sessions, started, outer, tables, sheet, auxVars>>

\* one round of the loop: split the key and, when both parts are non-empty,
\* await closeInstance, which deletes the entry of the rebuilt key
CloseAllStep ==
    /\ caPc = "loop"
    /\ \E key \in caTodo :
          /\ caTodo' = caTodo \ {key}
          /\ sessions' = sessions \ ClosedFor(key)
    /\ UNCHANGED <<poolVars, procVars, everReturned, envVars, callVars, conn,
                   caKeys, caPc, started, outer, tables, sheet, auxVars>>

\* the loop is over: closeAll returns
CloseAllDone ==
    /\ caPc = "loop"
    /\ caTodo = {}
    /\ caPc' = "done"
    /\ UNCHANGED <<poolVars, procVars, everReturned, envVars, callVars, conn,
                   sessions, caKeys, caTodo, started, outer, tables, sheet, auxVars>>

\* the process goes on after closeAll
CloseAllReturn ==
    /\ caPc = "done"
    /\ caPc' = "idle"
    /\ caKeys' = {}
    /\ UNCHANGED <<poolVars, procVars, everReturned, envVars, callVars, conn,
                   sessions, caTodo, started, outer, tables, sheet, auxVars>>

NextCloseAll ==
    \/ OpenSession
    \/ CloseAllStart
    \/ CloseAllStep
    \/ CloseAllDone
    \/ CloseAllReturn

SpecCloseAll == Init /\ [][NextCloseAll]_vars

\* ------------------------------------------------------------------------
\* Specification of concurrent reconciliation: two callers of syncDatasources
\* on the same key
\* ------------------------------------------------------------------------
PairProcs == {"p1", "p2"}

\* the datasources of the conversation the two callers reconcile
PairIds == {IdA, IdB}

\* a caller issues its one syncDatasources call
CallSyncOnce(p) ==
    /\ pc[p] = "idle"
    /\ p \notin started
    /\ started' = started \cup {p}
    /\ \E ids \in SUBSET PairIds : checked' = [checked EXCEPT ![p] = ids]
    /\ GetInstanceEnter(p, "sync", "sync_acquire")
    /\ UNCHANGED <<poolVars, held, everReturned, envVars, conn, swrap, calls,
                   foreignDatabases, duckdbNative, phase, done, cur, pre, issued,
                   regVars, outer, tables, sheet, auxVars>>

NextPair ==
    \E p \in PairProcs :
        \/ CallSyncOnce(p)
        \/ SyncAcquire(p)
        \/ GetInstanceCreate(p)
        \/ GetConnectionCheck(p)
        \/ GetConnectionConnected(p)
        \/ SyncLoad(p)
        \/ SyncIssue(p)
        \/ SyncDetachResume(p)
        \/ SyncDropResume(p)
        \/ SyncAttachResume(p)
        \/ SyncCreateResume(p)
        \/ SyncFinally(p)
        \/ CallReturn(p)

SpecPair == Init /\ [][NextPair]_vars

\* ------------------------------------------------------------------------
\* Specification of the registry over several sessions: callers address a
\* session by (workspace, conversationId); getInstance, getConnection,
\* returnConnection, syncDatasources and closeInstance find the wrapper under
\* the key built from the pair. Each call is taken as one step here; how the
\* awaits of one call interleave with other calls is what Spec, SpecLife and
\* SpecSync are about
\* ------------------------------------------------------------------------
\* the (workspace, conversationId) pairs callers use: a plain one, and two
\* with a path or an id that has ':' in it
Pairs ==
    {<<(<<"w">>), (<<"x">>)>>,
     <<(<<"c", ":", "d">>), (<<"x">>)>>,
     <<(<<"c">>), (<<"d", ":", "x">>)>>}

\* const key = `${workspace}:${conversationId}`
PairKey(pr) == KeyOf(pr[1], pr[2])

\* this.instances.has(key)
HasKey(key) == key \in DOMAIN registry

\* the wrapper found under the key of a pair
WrapperOf(pr) == wrappers[registry[PairKey(pr)]]

\* getInstance(pr): the entry under the key, created when there is none
RegGetInstance(pr) ==
    /\ IF HasKey(PairKey(pr))
       THEN UNCHANGED <<registry, wrappers, nextGen, instOpen>>
       ELSE /\ Cardinality(DOMAIN registry) < MaxSessions
            /\ nextGen <= MaxGen
            /\ registry' = MapSet(registry, PairKey(pr), nextGen)
            /\ wrappers' = [wrappers EXCEPT ![nextGen] = NewWrapper]
            /\ instOpen' = instOpen \cup {nextGen}
            /\ nextGen' = nextGen + 1
    /\ clients' = IF pr \in DOMAIN clients THEN clients ELSE MapSet(clients, pr, {})
    /\ sessions' = DOMAIN registry'
    /\ UNCHANGED <<instances, nextConn, closed, procVars, everReturned, envVars,
                   callVars, conn, caKeys, caTodo, caPc, started, outer, tables, sheet,
                   sheets, fnCall>>

\* getConnection(pr) once its getInstance has resolved: from the pool, or a
\* new connection under the limit (at the limit the call waits)
RegGetConnection(pr) ==
    /\ pr \in DOMAIN clients
    /\ HasKey(PairKey(pr))
    /\ LET g == registry[PairKey(pr)]
           w == wrappers[g]
       IN IF w.connectionPool # <<>>
          THEN LET h == w.connectionPool[Len(w.connectionPool)]
               IN /\ wrappers' = [wrappers EXCEPT
                        ![g].connectionPool = SubSeq(@, 1, Len(@) - 1),
                        ![g].activeConnections = @ + 1]
                  /\ clients' = [clients EXCEPT ![pr] = @ \cup {h}]
                  /\ UNCHANGED nextConn
          ELSE /\ UnderLimit(w)
               /\ nextConn <= MaxHandles
               /\ wrappers' = [wrappers EXCEPT ![g].activeConnections = @ + 1]
               /\ clients' = [clients EXCEPT ![pr] = @ \cup {[gen |-> g, n |-> nextConn]}]
               /\ nextConn' = nextConn + 1
    /\ UNCHANGED <<instances, nextGen, closed, instOpen, procVars, everReturned, envVars,
                   callVars, conn, regVars, started, outer, tables, sheet, registry,
                   sheets, fnCall>>

\* returnConnection(pr, h): into the pool of the wrapper under the key, or
\* closed when there is no entry
RegReturnConnection(pr) ==
    /\ pr \in DOMAIN clients
    /\ \E h \in clients[pr] :
          /\ clients' = [clients EXCEPT ![pr] = @ \ {h}]
          /\ IF HasKey(PairKey(pr))
             THEN /\ wrappers' = [wrappers EXCEPT
                        ![registry[PairKey(pr)]].connectionPool = Append(@, h),
                        ![registry[PairKey(pr)]].activeConnections = Decremented(@)]
                  /\ UNCHANGED closed
             ELSE /\ closed' = closed \cup {h}
                  /\ UNCHANGED wrappers
    /\ UNCHANGED <<instances, nextGen, nextConn, instOpen, procVars, everReturned,
                   envVars, callVars, conn, regVars, started, outer, tables, sheet,
                   registry, sheets, fnCall>>

\* syncDatasources(pr, ids) whose engine calls all succeed: the registries of
\* the wrapper under the key become the checked ids
RegSync(pr) ==
    /\ pr \in DOMAIN clients
    /\ HasKey(PairKey(pr))
    /\ \E ids \in SUBSET PairIds :
          wrappers' = [wrappers EXCEPT
              ![registry[PairKey(pr)]].attachedDatasources =
                  {d \in ids : repo[d].kind = "foreign"},
              ![registry[PairKey(pr)]].viewRegistry =
                  [d \in {x \in ids : repo[x].kind = "native"} |-> ViewNameOf(d)]]
    /\ UNCHANGED <<instances, nextGen, nextConn, closed, instOpen, procVars,
                   everReturned, envVars, callVars, conn, regVars, started, outer,
                   tables, sheet, registry, clients, sheets, fnCall>>

\* closeInstance(pr): pool and instance closed, the entry deleted
RegCloseInstance(pr) ==
    /\ pr \in DOMAIN clients
    /\ HasKey(PairKey(pr))
    /\ closed' = closed \cup SeqToSet(WrapperOf(pr).connectionPool)
    /\ instOpen' = instOpen \ {registry[PairKey(pr)]}
    /\ registry' = MapDelete(registry, PairKey(pr))
    /\ sessions' = DOMAIN registry'
    /\ UNCHANGED <<instances, wrappers, nextGen, nextConn, procVars, everReturned,
                   envVars, callVars, conn, caKeys, caTodo, caPc, started, outer,
                   tables, sheet, clients, sheets, fnCall>>

\* an operation applied to the session of pair pr
RegOperation(pr) ==
    \/ RegGetConnection(pr)
    \/ RegReturnConnection(pr)
    \/ RegSync(pr)
    \/ RegCloseInstance(pr)

NextRegistry ==
    \E pr \in Pairs :
        \/ RegGetInstance(pr)
        \/ RegGetConnection(pr)
        \/ RegReturnConnection(pr)
        \/ RegSync(pr)
        \/ RegCloseInstance(pr)

SpecRegistry == Init /\ [][NextRegistry]_vars

\* ------------------------------------------------------------------------
\* Specification of two listAvailableSheets calls running at once on a
\* session in which syncDatasources(checked = [a-1, b-2]) has attached one
\* database and registered one view
\* ------------------------------------------------------------------------
ListProcs == {"p1", "p2"}

InitListed ==
    /\ instances = 1
    /\ wrappers = [g \in Gens |->
                     IF g = 1
                     THEN [NewWrapper EXCEPT
                             !.connectionPool = <<[gen |-> 1, n |-> 1]>>,
                             !.attachedDatasources = {IdA},
                             !.viewRegistry = MapSet(EmptyMap, IdB, ViewNameOf(IdB))]
                     ELSE NewWrapper]
    /\ nextGen = 2
    /\ nextConn = 2
    /\ closed = {}
    /\ instOpen = {1}
    /\ pc = [p \in Procs |-> "idle"]
    /\ op = [p \in Procs |-> "none"]
    /\ ret = [p \in Procs |-> "idle"]
    /\ wref = [p \in Procs |-> 0]
    /\ held = [p \in Procs |-> {}]
    /\ everReturned = TRUE
    /\ repo = [d \in Ids |-> [present |-> TRUE,
                               kind |-> IF d = IdB THEN "native" ELSE "foreign"]]
    /\ envEdits = 0
    /\ calls = 0
    /\ catalogs = {getDatasourceDatabaseName(Datasource(IdA))}
    /\ engineViews = {ViewNameOf(IdB)}
    /\ conn = [p \in Procs |-> NoConn]
    /\ swrap = [p \in Procs |-> 0]
    /\ checked = [p \in Procs |-> {}]
    /\ foreignDatabases = [p \in Procs |-> {}]
    /\ duckdbNative = [p \in Procs |-> {}]
    /\ phase = [p \in Procs |-> 0]
    /\ done = [p \in Procs |-> {}]
    /\ cur = [p \in Procs |-> NoItem]
    /\ pre = [p \in Procs |-> NoPre]
    /\ issued = [p \in Procs |-> {}]
    /\ sessions = {}
    /\ caKeys = {}
    /\ caTodo = {}
    /\ caPc = "idle"
    /\ started = {}
    /\ outer = [p \in Procs |-> NoFrame]
    /\ tables = [p \in Procs |-> {}]
    /\ sheet = [p \in Procs |-> NoSheet]
    /\ registry = EmptyMap
    /\ clients = EmptyMap
    /\ sheets = [p \in Procs |-> EmptyBag]
    /\ fnCall = NoCall

\* a caller makes its one listAvailableSheets call: getWrapper finds the
\* session
CallListOnce(p) ==
    /\ pc[p] = "idle"
    /\ p \notin started
    /\ instances # 0
    /\ started' = started \cup {p}
    /\ pc' = [pc EXCEPT ![p] = "list_acquire"]
    /\ op' = [op EXCEPT ![p] = "list"]
    /\ swrap' = [swrap EXCEPT ![p] = instances]
    /\ sheets' = [sheets EXCEPT ![p] = EmptyBag]
    /\ UNCHANGED <<poolVars, ret, wref, held, everReturned, envVars, conn, calls, checked,
                   foreignDatabases, duckdbNative, phase, done, cur, pre, issued>>
    /\ UNCHANGED <<regVars, outer, tables, sheet, registry, clients, fnCall>>

NextLists ==
    \E p \in ListProcs :
        \/ CallListOnce(p)
        \/ ListAcquire(p)
        \/ GetConnectionCheck(p)
        \/ GetConnectionConnected(p)
        \/ ListIssue(p)
        \/ ListProbeResume(p)
        \/ ListFinally(p)
        \/ ListTables(p)
        \/ ListSecondIssue(p)
        \/ ListSecondResume(p)
        \/ ListDone(p)

SpecLists == InitListed /\ [][NextLists]_vars

\* ------------------------------------------------------------------------
\* renameSheet
\* ------------------------------------------------------------------------

DoesNotExist == <<"d", "o", "e", "s", " ", "n", "o", "t", " ", "e", "x", "i", "s", "t">>
NotFound == <<"n", "o", "t", " ", "f", "o", "u", "n", "d">>
CatalogError == <<"C", "a", "t", "a", "l", "o", "g", " ", "E", "r", "r", "o", "r">>

\* an engine error that is not about a missing object
IOError == <<"I", "O", " ", "E", "r", "r", "o", "r">>

\* the message renameSheet throws when the probe of the new name answers
AlreadyExistsMessage(newSheetName) ==
    <<"V", "i", "e", "w", " ", "\"">> \o newSheetName \o
    <<"\"", " ", "a", "l", "r", "e", "a", "d", "y", " ", "e", "x", "i", "s", "t", "s", ".">>

\* the catch around the probe of the new name: these messages mean the name
\* is free, every other error is rethrown
NameIsFree(errorMsg) ==
    \/ Includes(errorMsg, DoesNotExist)
    \/ Includes(errorMsg, NotFound)
    \/ Includes(errorMsg, CatalogError)

\* sheet names callers pass
RenameNames == {<<>>, ViewNameOf(IdB), <<"n">>, NotFound}

\* what `SELECT 1 FROM "<name>" LIMIT 1` can end with: <<>> when it
\* answers, else the message of the error the engine raises
NoError == <<>>
SelectOutcomes(name) ==
    IF EngineUnquote(EscapeQuotes(name)) \in engineViews
    THEN {NoError, IOError}
    ELSE {CatalogError, IOError}

\* renameSheet: the two validations, then await getConnection
CallRename(p) ==
    /\ pc[p] = "idle"
    /\ calls < MaxCalls
    /\ calls' = calls + 1
    /\ \E old \in RenameNames, new \in RenameNames :
          /\ sheet' = [sheet EXCEPT ![p] = [oldSheetName |-> old, newSheetName |-> new]]
          /\ IF old = <<>> \/ new = <<>> \/ old = new
             THEN /\ pc' = [pc EXCEPT ![p] = "rename_rejected"]
                  /\ op' = [op EXCEPT ![p] = "rename"]
                  /\ UNCHANGED <<ret, wref>>
             ELSE GetInstanceEnter(p, "rename", "gc_check")
    /\ UNCHANGED <<poolVars, held, everReturned, envVars, conn, swrap, checked,
                   foreignDatabases, duckdbNative, phase, done, cur, pre, issued>>
    /\ UNCHANGED <<regVars, started, outer, tables, auxVars>>

\* the probe of the old name resolves or rejects; a rejection of any kind is
\* thrown as 'does not exist'
RenameProbeOld(p) ==
    /\ pc[p] = "rename_old"
    /\ \E res \in SelectOutcomes(sheet[p].oldSheetName) :
          pc' = [pc EXCEPT ![p] = IF res = NoError THEN "rename_new" ELSE "rename_abort"]
    /\ UNCHANGED <<poolVars, op, ret, wref, held, everReturned, envVars, callVars, conn>>
    /\ UNCHANGED extVars

\* the probe of the new name: when it answers, 'already exists' is thrown
\* inside the same try block, so the catch sees that message as well
RenameProbeNew(p) ==
    /\ pc[p] = "rename_new"
    /\ \E res \in SelectOutcomes(sheet[p].newSheetName) :
          LET errorMsg == IF res = NoError
                          THEN AlreadyExistsMessage(sheet[p].newSheetName)
                          ELSE res
          IN pc' = [pc EXCEPT ![p] =
                      IF NameIsFree(errorMsg) THEN "rename_apply" ELSE "rename_abort"]
    /\ UNCHANGED <<poolVars, op, ret, wref, held, everReturned, envVars, callVars, conn>>
    /\ UNCHANGED extVars

\* renameView of ./view-registry: the view gets its new name and the
\* registry entry of the old name goes; it raises when the engine does
RenameView(views, old, new) == (views \ {old}) \cup {new}
RegistryWithout(f, viewName) == [d \in {x \in DOMAIN f : f[x] # viewName} |-> f[d]]

\* await renameView(dbPath, oldSheetName, newSheetName)
RenameApply(p) ==
    /\ pc[p] = "rename_apply"
    /\ \E raised \in BOOLEAN :
          IF raised \/ instances = 0
          THEN /\ pc' = [pc EXCEPT ![p] = IF raised THEN "rename_abort" ELSE "rename_ok"]
               /\ UNCHANGED <<engineViews, wrappers>>
          ELSE /\ pc' = [pc EXCEPT ![p] = "rename_ok"]
               /\ engineViews' = RenameView(engineViews, sheet[p].oldSheetName,
                                            sheet[p].newSheetName)
               /\ wrappers' = [wrappers EXCEPT ![instances].viewRegistry =
                                 RegistryWithout(@, sheet[p].oldSheetName)]
    /\ UNCHANGED <<instances, nextGen, nextConn, closed, instOpen, op, ret, wref, held,
                   everReturned, repo, envEdits, catalogs, callVars, conn>>
    /\ UNCHANGED extVars

\* finally returnConnection, on the return as on every throw of the try block
RenameFinally(p) ==
    /\ pc[p] \in {"rename_ok", "rename_abort"}
    /\ FinallyReturn(IF pc[p] = "rename_abort" THEN "throw" ELSE "ok", conn[p])
    /\ everReturned' = TRUE
    /\ pc' = [pc EXCEPT ![p] = IF pc[p] = "rename_abort" THEN "rename_rejected"
                                ELSE "rename_done"]
    /\ UNCHANGED <<instances, nextGen, nextConn, instOpen, op, ret, wref, held,
                   envVars, callVars, conn>>
    /\ UNCHANGED extVars

\* ------------------------------------------------------------------------
\* The getSchema tool
\* ------------------------------------------------------------------------

\* getSchema: throws when the workspace is not set, else await getConnection
CallGetSchema(p) ==
    /\ pc[p] = "idle"
    /\ calls < MaxCalls
    /\ calls' = calls + 1
    /\ \E workspaceSet \in BOOLEAN :
          IF workspaceSet
          THEN GetInstanceEnter(p, "schema", "gc_check")
          ELSE /\ pc' = [pc EXCEPT ![p] = "schema_rejected"]
               /\ op' = [op EXCEPT ![p] = "schema"]
               /\ UNCHANGED <<ret, wref>>
    /\ UNCHANGED <<poolVars, held, everReturned, envVars, conn, swrap, checked,
                   foreignDatabases, duckdbNative, phase, done, cur, pre, issued>>
    /\ UNCHANGED extVars

\* no repositories, no conversation, an empty datasource list, or the lookup
\* of the conversation throws (caught): no sync
SchemaSkipSync(p) ==
    /\ pc[p] = "schema_sync"
    /\ pc' = [pc EXCEPT ![p] = "schema_body"]
    /\ UNCHANGED <<poolVars, op, ret, wref, held, everReturned, envVars, callVars, conn>>
    /\ UNCHANGED extVars

\* await syncDatasources(conversationId, workspace, conversation.datasources,
\* ...) with the tool's connection still held
SchemaCallSync(p) ==
    /\ pc[p] = "schema_sync"
    /\ outer' = [outer EXCEPT ![p] = [op |-> "schema", conn |-> conn[p]]]
    /\ \E ids \in SUBSET Ids \ {{}} : checked' = [checked EXCEPT ![p] = ids]
    /\ GetInstanceEnter(p, "sync", "sync_acquire")
    /\ UNCHANGED <<poolVars, held, everReturned, envVars, conn, calls, swrap,
                   foreignDatabases, duckdbNative, phase, done, cur, pre, issued>>
    /\ UNCHANGED <<regVars, started, tables, sheet, auxVars>>

\* the queries of the tool resolve or one of them rejects; finally
\* returnConnection
SchemaFinally(p) ==
    /\ pc[p] = "schema_body"
    /\ \E outcome \in {"ok", "throw"} :
          /\ FinallyReturn(outcome, conn[p])
          /\ pc' = [pc EXCEPT ![p] = IF outcome = "ok" THEN "schema_done"
                                      ELSE "schema_rejected"]
    /\ everReturned' = TRUE
    /\ UNCHANGED <<instances, nextGen, nextConn, instOpen, op, ret, wref, held,
                   envVars, callVars, conn>>
    /\ UNCHANGED extVars

\* ------------------------------------------------------------------------
\* Specification of the operations that acquire a connection, run one after
\* the other by one caller that may hold a handle of its own meanwhile
\* ------------------------------------------------------------------------
OpsProcs == {"p1"}

NextOps ==
    \E p \in OpsProcs :
        \/ CallGetConnection(p)
        \/ ReturnConnection(p)
        \/ CallSync(p)
        \/ SyncAcquire(p)
        \/ GetInstanceCreate(p)
        \/ GetConnectionCheck(p)
        \/ GetConnectionConnected(p)
        \/ GetConnectionRetry(p)
        \/ SyncLoad(p)
        \/ SyncIssue(p)
        \/ SyncDetachResume(p)
        \/ SyncDropResume(p)
        \/ SyncAttachResume(p)
        \/ SyncCreateResume(p)
        \/ SyncFinally(p)
        \/ CallList(p)
        \/ ListAcquire(p)
        \/ ListIssue(p)
        \/ ListProbeResume(p)
        \/ ListFinally(p)
        \/ ListTables(p)
        \/ ListSecondIssue(p)
        \/ ListSecondResume(p)
        \/ ListDone(p)
        \/ CallRename(p)
        \/ RenameProbeOld(p)
        \/ RenameProbeNew(p)
        \/ RenameApply(p)
        \/ RenameFinally(p)
        \/ CallGetSchema(p)
        \/ SchemaSkipSync(p)
        \/ SchemaCallSync(p)
        \/ SchemaFinally(p)
        \/ CallReturn(p)

SpecOps == Init /\ [][NextOps]_vars

\* ------------------------------------------------------------------------
\* Specification of renaming: one caller renames sheets and reconciles, one
\* call after the other, on a session with a view and an attached database
\* ------------------------------------------------------------------------
NextRename ==
    \E p \in OpsProcs :
        \/ CallRename(p)
        \/ GetConnectionCheck(p)
        \/ RenameProbeOld(p)
        \/ RenameProbeNew(p)
        \/ RenameApply(p)
        \/ RenameFinally(p)
        \/ CallSync(p)
        \/ SyncAcquire(p)
        \/ SyncLoad(p)
        \/ SyncIssue(p)
        \/ SyncDetachResume(p)
        \/ SyncDropResume(p)
        \/ SyncAttachResume(p)
        \/ SyncCreateResume(p)
        \/ SyncFinally(p)
        \/ CallReturn(p)

SpecRename == InitListed /\ [][NextRename]_vars

\* ------------------------------------------------------------------------
\* Specification of two getSchema tool calls running at once on a session,
\* with fair scheduling: a continuation that is ready to run, and a timer
\* that was set, do run
\* ------------------------------------------------------------------------
SchemaProcs == {"p1", "p2"}

\* a caller makes its one getSchema call
CallGetSchemaOnce(p) ==
    /\ pc[p] = "idle"
    /\ p \notin started
    /\ started' = started \cup {p}
    /\ \E workspaceSet \in BOOLEAN :
          IF workspaceSet
          THEN GetInstanceEnter(p, "schema", "gc_check")
          ELSE /\ pc' = [pc EXCEPT ![p] = "schema_rejected"]
               /\ op' = [op EXCEPT ![p] = "schema"]
               /\ UNCHANGED <<ret, wref>>
    /\ UNCHANGED <<poolVars, held, everReturned, envVars, conn, calls, swrap, checked,
                   foreignDatabases, duckdbNative, phase, done, cur, pre, issued>>
    /\ UNCHANGED <<regVars, outer, tables, sheet, auxVars>>

\* conversation.datasources, as the tool reads it: the datasources enabled in
\* the conversation, which the UI may change between the two calls
ConversationDatasources == {{IdC}, {IdA, IdB}}

SchemaSteps(p) ==
    \/ CallGetSchemaOnce(p)
    \/ GetConnectionCheck(p)
    \/ GetConnectionConnected(p)
    \/ GetConnectionRetry(p)
    \/ SchemaSkipSync(p)
    \/ SchemaCallSync(p) /\ checked'[p] \in ConversationDatasources
    \/ SyncAcquire(p)
    \/ SyncLoad(p)
    \/ SyncIssue(p)
    \/ SyncDetachResume(p)
    \/ SyncDropResume(p)
    \/ SyncAttachResume(p)
    \/ SyncCreateResume(p)
    \/ SyncFinally(p)
    \/ SchemaFinally(p)
    \/ CallReturn(p)

NextSchema == \E p \in SchemaProcs : SchemaSteps(p)

SpecSchema ==
    InitListed /\ [][NextSchema]_vars /\ \A p \in SchemaProcs : WF_vars(SchemaSteps(p))

\* ------------------------------------------------------------------------
\* Provider registry
\* ------------------------------------------------------------------------

\* the value null
Null == [null |-> TRUE]

\* characters the '.' of a regular expression does not match
LineTerminators == {"\n", "\r"}

\* the patterns /^word$/i and /^word(-.*)?$/i, in the order of the table
PROVIDER_PATTERNS_NoVariants ==
    << [word |-> <<"p", "o", "s", "t", "g", "r", "e", "s", "q", "l">>, variants |-> FALSE,
        mapping |-> [duckdbType |-> "POSTGRES", requiresExtension |-> TRUE,
                     extensionName |-> "postgres"]],
       [word |-> <<"m", "y", "s", "q", "l">>, variants |-> FALSE,
        mapping |-> [duckdbType |-> "MYSQL", requiresExtension |-> TRUE,
                     extensionName |-> "mysql"]],
       [word |-> <<"s", "q", "l", "i", "t", "e">>, variants |-> FALSE,
        mapping |-> [duckdbType |-> "SQLITE", requiresExtension |-> FALSE]],
       [word |-> <<"d", "u", "c", "k", "d", "b">>, variants |-> FALSE,
        mapping |-> [duckdbType |-> "SQLITE", requiresExtension |-> FALSE]] >>

PROVIDER_PATTERNS ==
    << [word |-> <<"p", "o", "s", "t", "g", "r", "e", "s", "q", "l">>, variants |-> TRUE,
        mapping |-> [duckdbType |-> "POSTGRES", requiresExtension |-> TRUE,
                     extensionName |-> "postgres"]],
       [word |-> <<"m", "y", "s", "q", "l">>, variants |-> FALSE,
        mapping |-> [duckdbType |-> "MYSQL", requiresExtension |-> TRUE,
                     extensionName |-> "mysql"]],
       [word |-> <<"s", "q", "l", "i", "t", "e">>, variants |-> FALSE,
        mapping |-> [duckdbType |-> "SQLITE", requiresExtension |-> FALSE]],
       [word |-> <<"d", "u", "c", "k", "d", "b">>, variants |-> FALSE,
        mapping |-> [duckdbType |-> "SQLITE", requiresExtension |-> FALSE]] >>

\* pattern.test(s) for a pattern of the table; the flag i folds the case
PatternTest(pattern, s) ==
    LET folded == ToLowerCase(s)
        n == Len(pattern.word)
    IN \/ folded = pattern.word
       \/ /\ pattern.variants
          /\ Len(folded) > n
          /\ SubSeq(folded, 1, n + 1) = pattern.word \o <<"-">>
          /\ \A i \in (n + 2)..Len(folded) : folded[i] \notin LineTerminators

\* the first pattern that matches decides; the extension discovery that
\* follows returns null whatever it finds
getProviderMapping(providerId) ==
    LET provider == ToLowerCase(providerId)
        matching == {i \in DOMAIN PROVIDER_PATTERNS :
                        PatternTest(PROVIDER_PATTERNS[i], provider)}
    IN IF matching # {}
       THEN PROVIDER_PATTERNS[CHOOSE i \in matching : \A j \in matching : i <= j].mapping
       ELSE Null

isProviderSupported(providerId) == getProviderMapping(providerId) # Null

\* the value JavaScript takes as false in the type of the field
FalsyOf(field) == IF field = "port" THEN 0 ELSE <<>>

\* !!config[field]
Truthy(config, field) ==
    field \in DOMAIN config /\ config[field] # FalsyOf(field)

\* OrDefault that takes the default only when the field is missing
OrDefaultIfMissing(config, field, default) ==
    IF field \in DOMAIN config THEN config[field] ELSE default

\* config[field] || default
OrDefault(config, field, default) ==
    IF Truthy(config, field) THEN config[field] ELSE default

\* the decimal digits of a number, as a template literal renders it
RECURSIVE NumberToString(_)
NumberToString(n) ==
    LET digit == <<"0", "1", "2", "3", "4", "5", "6", "7", "8", "9">>[(n % 10) + 1]
    IN IF n < 10 THEN <<digit>> ELSE NumberToString(n \div 10) \o <<digit>>

\* what a connection-string builder gives: the string, or the error thrown
Returned(string) == [value |-> string]
Raised(message) == [error |-> message]

\* case 'MYSQL'
MysqlConnectionString(config) ==
    IF Truthy(config, "connectionUrl")
    THEN Returned(config["connectionUrl"])
    ELSE LET host == OrDefault(config, "host", <<"l", "o", "c", "a", "l", "h", "o", "s", "t">>)
             port == OrDefault(config, "port", 3306)
             user == OrDefault(config, "user", <<"r", "o", "o", "t">>)
             password == OrDefault(config, "password", <<>>)
             database == OrDefault(config, "database", <<>>)
         IN Returned(<<"h", "o", "s", "t", "=">> \o host \o <<" ", "p", "o", "r", "t", "=">> \o NumberToString(port)
                     \o <<" ", "u", "s", "e", "r", "=">> \o user \o <<" ", "p", "a", "s", "s", "w", "o", "r", "d", "=">> \o password
                     \o <<" ", "d", "a", "t", "a", "b", "a", "s", "e", "=">> \o database)

\* A Postgres connection URL is a tuple of lexical pieces: a text, the
\* separators '?' and '&', and parameters key=value
Question == <<"?">>
Ampersand == <<"&">>
Param(key, value) == <<key, "=", value>>
IsParam(piece) == Len(piece) = 3
IsSeparator(piece) == piece \in {Question, Ampersand}
IsChannelBinding(piece) == IsParam(piece) /\ piece[1] = "channel_binding"
NotChannelBinding(piece) == ~IsChannelBinding(piece)
IsSslmode(piece) == IsParam(piece) /\ piece[1] = "sslmode"

\* texts ahead of the query: one the URL parser accepts, and one it rejects
\* (two hosts, so that the port does not parse)
ParsedBase == <<"postgresql://u:p@h:5432/db">>
UnparsedBase == <<"postgresql://u:p@h1:5432,h2:5432/db">>

\* new URL(connectionUrl) does not throw
URLParses(connectionUrl) == connectionUrl # <<>> /\ connectionUrl[1] = ParsedBase

\* the pieces joined with '&'
RECURSIVE JoinAmpersand(_)
JoinAmpersand(params) ==
    IF Len(params) <= 1 THEN params
    ELSE <<params[1], Ampersand>> \o JoinAmpersand(Tail(params))

\* url.searchParams of a parsed URL: the parameters of its query
SearchParams(connectionUrl) == SelectSeq(Tail(connectionUrl), IsParam)

\* url.toString() after searchParams was changed: the query is written again
\* from the list, and left out when the list is empty
URLToString(base, params) ==
    <<base>> \o (IF params = <<>> THEN <<>> ELSE <<Question>> \o JoinAmpersand(params))

\* replace(/[&?]channel_binding=[^&]*/g, '')
RECURSIVE RemoveSeparated(_)
RemoveSeparated(str) ==
    IF str = <<>> THEN <<>>
    ELSE IF Len(str) >= 2 /\ IsSeparator(str[1]) /\ IsChannelBinding(str[2])
    THEN RemoveSeparated(SubSeq(str, 3, Len(str)))
    ELSE <<str[1]>> \o RemoveSeparated(Tail(str))

\* replace(/channel_binding=[^&]*&?/g, '')
RECURSIVE RemoveLeading(_)
RemoveLeading(str) ==
    IF str = <<>> THEN <<>>
    ELSE IF IsChannelBinding(str[1])
    THEN IF Len(str) >= 2 /\ str[2] = Ampersand
         THEN RemoveLeading(SubSeq(str, 3, Len(str)))
         ELSE RemoveLeading(Tail(str))
    ELSE <<str[1]>> \o RemoveLeading(Tail(str))

\* replace(/sslmode=disable/g, 'sslmode=prefer')
DisableToPrefer(str) ==
    [i \in 1..Len(str) |->
        IF str[i] = Param("sslmode", "disable") THEN Param("sslmode", "prefer") ELSE str[i]]

\* str.includes('sslmode=') and str.includes('?')
IncludesSslmode(str) == \E i \in 1..Len(str) : IsSslmode(str[i])
IncludesQuestion(str) == \E i \in 1..Len(str) : str[i] = Question

\* the catch of new URL: textual replacement
TextualFallback(connectionUrl) ==
    LET cleaned == DisableToPrefer(RemoveLeading(RemoveSeparated(connectionUrl)))
    IN IF IncludesSslmode(cleaned) THEN cleaned
       ELSE IF IncludesQuestion(cleaned)
       THEN cleaned \o <<Ampersand, Param("sslmode", "prefer")>>
       ELSE cleaned \o <<Question, Param("sslmode", "prefer")>>

\* 'PostgreSQL datasource requires connectionUrl in config'
PostgresRequires ==
    <<"P", "o", "s", "t", "g", "r", "e", "S", "Q", "L", " ", "d", "a", "t",
      "a", "s", "o", "u", "r", "c", "e", " ", "r", "e", "q", "u", "i", "r",
      "e", "s", " ", "c", "o", "n", "n", "e", "c", "t", "i", "o", "n", "U",
      "r", "l", " ", "i", "n", " ", "c", "o", "n", "f", "i", "g">>

\* case 'POSTGRES'
PostgresConnectionString(config) ==
    IF ~Truthy(config, "connectionUrl")
    THEN Raised(PostgresRequires)
    ELSE LET connectionUrl == config["connectionUrl"]
         IN IF URLParses(connectionUrl)
            THEN Returned(URLToString(connectionUrl[1],
                                      SelectSeq(SearchParams(connectionUrl),
                                                NotChannelBinding)))
            ELSE Returned(TextualFallback(connectionUrl))

\* 'SQLite/DuckDB datasource requires path, database, or connectionUrl in config'
SqliteRequires ==
    <<"S", "Q", "L", "i", "t", "e", "/", "D", "u", "c", "k", "D", "B", " ",
      "d", "a", "t", "a", "s", "o", "u", "r", "c", "e", " ", "r", "e", "q",
      "u", "i", "r", "e", "s", " ", "p", "a", "t", "h", ",", " ", "d", "a",
      "t", "a", "b", "a", "s", "e", ",", " ", "o", "r", " ", "c", "o", "n",
      "n", "e", "c", "t", "i", "o", "n", "U", "r", "l", " ", "i", "n", " ",
      "c", "o", "n", "f", "i", "g">>

\* case 'SQLITE'
SqliteConnectionString(config) ==
    IF Truthy(config, "path") THEN Returned(config["path"])
    ELSE IF Truthy(config, "database") THEN Returned(config["database"])
    ELSE IF Truthy(config, "connectionUrl") THEN Returned(config["connectionUrl"])
    ELSE Raised(SqliteRequires)

\* mapping.getConnectionString(config), for the mapping of a duckdbType
getConnectionString(type, config) ==
    CASE type = "POSTGRES" -> PostgresConnectionString(config)
      [] type = "MYSQL" -> MysqlConnectionString(config)
      [] type = "SQLITE" -> SqliteConnectionString(config)

\* the characters of provider ids in the order of their code units
CodeOrder ==
    <<"-", "0", "1", "2", "3", "4", "5", "6", "7", "8", "9">>
    \o UpperAlphabet \o <<"_">> \o LowerAlphabet
CharCode(c) == CHOOSE i \in DOMAIN CodeOrder : CodeOrder[i] = c

\* a < b as Array.prototype.sort compares strings
RECURSIVE Before(_, _)
Before(a, b) ==
    IF a = <<>> THEN b # <<>>
    ELSE IF b = <<>> THEN FALSE
    ELSE IF a[1] = b[1] THEN Before(Tail(a), Tail(b))
    ELSE CharCode(a[1]) < CharCode(b[1])

\* Array.from(set).sort()
RECURSIVE SortStrings(_)
SortStrings(set) ==
    IF set = {} THEN <<>>
    ELSE LET first == CHOOSE x \in set : \A y \in set \ {x} : Before(x, y)
         IN <<first>> \o SortStrings(set \ {first})

\* array.join(', ')
RECURSIVE JoinComma(_)
JoinComma(strings) ==
    IF strings = <<>> THEN <<>>
    ELSE IF Len(strings) = 1 THEN strings[1]
    ELSE strings[1] \o <<",", " ">> \o JoinComma(Tail(strings))

\* getSupportedProviders: the three base ids and the discovered datasource
\* ids that have a mapping, sorted
getSupportedProviders(discovered) ==
    SortStrings({<<"p", "o", "s", "t", "g", "r", "e", "s", "q", "l">>,
                 <<"m", "y", "s", "q", "l">>,
                 <<"s", "q", "l", "i", "t", "e">>}
                \cup {id \in discovered : getProviderMapping(id) # Null})

\* the error of an unsupported provider, without the list
UnsupportedMessageBare(provider, supported) ==
    <<"F", "o", "r", "e", "i", "g", "n", " ", "d", "a", "t", "a", "b", "a",
      "s", "e", " ", "t", "y", "p", "e", " ", "n", "o", "t", " ", "s", "u",
      "p", "p", "o", "r", "t", "e", "d", ":", " ">>
    \o provider

\* `Foreign database type not supported: ${provider}. Supported types: ${supported.join(', ')}`
UnsupportedMessage(provider, supported) ==
    <<"F", "o", "r", "e", "i", "g", "n", " ", "d", "a", "t", "a", "b", "a",
      "s", "e", " ", "t", "y", "p", "e", " ", "n", "o", "t", " ", "s", "u",
      "p", "p", "o", "r", "t", "e", "d", ":", " ">>
    \o provider
    \o <<".", " ", "S", "u", "p", "p", "o", "r", "t", "e", "d", " ", "t",
         "y", "p", "e", "s", ":", " ">>
    \o JoinComma(supported)

\* ------------------------------------------------------------------------
\* System catalog filter
\* ------------------------------------------------------------------------

\* the list DEFAULT_SYSTEM_SCHEMAS gives under the keys postgresql, neon and
\* supabase
PostgresSystemSchemas ==
    { <<"i", "n", "f", "o", "r", "m", "a", "t", "i", "o", "n", "_", "s", "c", "h", "e", "m", "a">>,
      <<"p", "g", "_", "c", "a", "t", "a", "l", "o", "g">>,
      <<"p", "g", "_", "t", "o", "a", "s", "t">>,
      <<"p", "g", "_", "t", "e", "m", "p">>,
      <<"p", "g", "_", "t", "o", "a", "s", "t", "_", "t", "e", "m", "p">>,
      <<"s", "u", "p", "a", "b", "a", "s", "e", "_", "m", "i", "g", "r", "a", "t", "i", "o", "n", "s">>,
      <<"v", "a", "u", "l", "t">>,
      <<"s", "t", "o", "r", "a", "g", "e">>,
      <<"r", "e", "a", "l", "t", "i", "m", "e">>,
      <<"g", "r", "a", "p", "h", "q", "l">>,
      <<"g", "r", "a", "p", "h", "q", "l", "_", "p", "u", "b", "l", "i", "c">>,
      <<"a", "u", "t", "h">>,
      <<"e", "x", "t", "e", "n", "s", "i", "o", "n", "s">>,
      <<"p", "g", "b", "o", "u", "n", "c", "e", "r">> }

\* DEFAULT_SYSTEM_SCHEMAS: provider key -> schema names
DEFAULT_SYSTEM_SCHEMAS ==
    [key \in { <<"p", "o", "s", "t", "g", "r", "e", "s", "q", "l">>,
               <<"n", "e", "o", "n">>,
               <<"s", "u", "p", "a", "b", "a", "s", "e">>,
               <<"m", "y", "s", "q", "l">>,
               <<"c", "l", "i", "c", "k", "h", "o", "u", "s", "e">>,
               <<"s", "q", "l", "i", "t", "e">> } |->
        CASE key = <<"m", "y", "s", "q", "l">> ->
               { <<"i", "n", "f", "o", "r", "m", "a", "t", "i", "o", "n", "_", "s", "c", "h", "e", "m", "a">>,
                 <<"m", "y", "s", "q", "l">>,
                 <<"p", "e", "r", "f", "o", "r", "m", "a", "n", "c", "e", "_", "s", "c", "h", "e", "m", "a">>,
                 <<"s", "y", "s">> }
          [] key = <<"c", "l", "i", "c", "k", "h", "o", "u", "s", "e">> ->
               { <<"s", "y", "s", "t", "e", "m">>,
                 <<"i", "n", "f", "o", "r", "m", "a", "t", "i", "o", "n", "_", "s", "c", "h", "e", "m", "a">>,
                 <<"I", "N", "F", "O", "R", "M", "A", "T", "I", "O", "N", "_", "S", "C", "H", "E", "M", "A">> }
          [] key = <<"s", "q", "l", "i", "t", "e">> -> { <<"s", "q", "l", "i", "t", "e", "_", "m", "a", "s", "t", "e", "r">> }
          [] OTHER -> PostgresSystemSchemas]

\* getSystemSchemas: the list under the lower-cased provider id, or none, each
\* name lower-cased
getSystemSchemas(datasourceProvider) ==
    LET provider == ToLowerCase(datasourceProvider)
        schemas == IF provider \in DOMAIN DEFAULT_SYSTEM_SCHEMAS
                   THEN DEFAULT_SYSTEM_SCHEMAS[provider] ELSE {}
    IN {ToLowerCase(schema) : schema \in schemas}

\* systemSchemas.has(schemaName.toLowerCase())
IsSystemSchema(systemSchemas, schemaName) == ToLowerCase(schemaName) \in systemSchemas

\* String.prototype.startsWith
StartsWith(str, prefix) ==
    Len(str) >= Len(prefix) /\ SubSeq(str, 1, Len(prefix)) = prefix

\* isSystemTableName
isSystemTableName(tableName) ==
    LET name == ToLowerCase(tableName)
    IN \/ StartsWith(name, <<"p", "g", "_">>)
       \/ StartsWith(name, <<"s", "q", "l", "i", "t", "e", "_">>)
       \/ StartsWith(name, <<"d", "u", "c", "k", "d", "b", "_">>)
       \/ StartsWith(name, <<"_">>)
       \/ Includes(name, <<"_", "m", "i", "g", "r", "a", "t", "i", "o", "n", "s">>)
       \/ Includes(name, <<"_", "s", "e", "c", "r", "e", "t", "s">>)

\* ------------------------------------------------------------------------
\* Specification of the pure functions: each step is one call, with its
\* argument drawn from a bounded set
\* ------------------------------------------------------------------------

\* longest datasource name passed to sanitizeDatabaseName
MaxLen == 3

\* characters of the names: a lower-case and an upper-case letter, a digit,
\* the underscore, a character outside [a-zA-Z0-9_], and the blank
NameChars == {"a", "S", "1", "_", "-", " "}

\* all strings over a set of characters, up to a length
Strings(chars, n) == UNION {[1..k -> chars] : k \in 0..n}

\* no call is running
Idle == fnCall.fn = "none"

\* the caller takes the result
FnReturn ==
    /\ ~Idle
    /\ fnCall' = NoCall

CallSanitize ==
    \E name \in Strings(NameChars, MaxLen) :
        /\ Idle
        /\ fnCall' = [fn |-> "sanitizeDatabaseName", arg |-> name,
                   res |-> sanitizeDatabaseName(name)]

\* provider ids: the words of the table and two others, written in lower
\* case, in upper case or capitalised, alone or followed by a suffix
ProviderWords ==
    { <<"p", "o", "s", "t", "g", "r", "e", "s", "q", "l">>,
      <<"m", "y", "s", "q", "l">>,
      <<"s", "q", "l", "i", "t", "e">>,
      <<"d", "u", "c", "k", "d", "b">>,
      <<"p", "o", "s", "t", "g", "r", "e", "s">>,
      <<"c", "l", "i", "c", "k", "h", "o", "u", "s", "e">> }
ProviderSuffixes ==
    { <<>>, <<"-">>, <<"-", "n", "e", "o", "n">>,
      <<"-", "S", "u", "p", "a", "b", "a", "s", "e">>, <<"-", "a", "-", "1">>, <<"x">> }
ToUpper(c) ==
    IF c \in LowerChars
    THEN UpperAlphabet[CHOOSE i \in DOMAIN LowerAlphabet : LowerAlphabet[i] = c]
    ELSE c
Spellings(w) ==
    { w, [i \in 1..Len(w) |-> ToUpper(w[i])],
      [i \in 1..Len(w) |-> IF i = 1 THEN ToUpper(w[i]) ELSE w[i]] }
ProviderIds ==
    {<<>>} \cup {sp \o suffix : sp \in UNION {Spellings(w) : w \in ProviderWords},
                               suffix \in ProviderSuffixes}

CallGetProviderMapping ==
    \E providerId \in ProviderIds :
        /\ Idle
        /\ fnCall' = [fn |-> "getProviderMapping", arg |-> providerId,
                   res |-> getProviderMapping(providerId)]

CallIsProviderSupported ==
    \E providerId \in ProviderIds :
        /\ Idle
        /\ fnCall' = [fn |-> "isProviderSupported", arg |-> providerId,
                   res |-> isProviderSupported(providerId)]

\* f restricted to the fields in D
Restrict(f, D) == [x \in D |-> f[x]]

\* configs of a MySQL datasource: each field missing, empty or set
MysqlConfigs ==
    {Restrict(full, D) :
        full \in [connectionUrl : {<<>>, <<"mysql://u:p@h:3306/db">>},
                  host : {<<>>, <<"h">>},
                  port : {0, 5, 13306},
                  user : {<<>>, <<"u">>},
                  password : {<<>>, <<"s">>},
                  database : {<<>>, <<"t">>}],
        D \in SUBSET {"connectionUrl", "host", "port", "user", "password", "database"}}

CallMysqlConnectionString ==
    \E config \in MysqlConfigs :
        /\ Idle
        /\ fnCall' = [fn |-> "getConnectionString:MYSQL", arg |-> config,
                   res |-> MysqlConnectionString(config)]

\* most parameters in the query of a connection URL
MaxParams == 3

QueryParams ==
    { Param("channel_binding", "require"), Param("sslmode", "disable"),
      Param("sslmode", "require"), Param("application_name", "q") }

\* lists of distinct parameters
ParamLists ==
    {params \in UNION {[1..k -> QueryParams] : k \in 0..MaxParams} :
        \A i, j \in 1..Len(params) : params[i] = params[j] => i = j}

\* a base, and the query when there are parameters
ConnectionUrls ==
    {<<base>> \o (IF params = <<>> THEN <<>> ELSE <<Question>> \o JoinAmpersand(params)) :
        base \in {ParsedBase, UnparsedBase}, params \in ParamLists}

PostgresConfigs ==
    {EmptyMap, [connectionUrl |-> <<>>]} \cup {[connectionUrl |-> u] : u \in ConnectionUrls}

CallPostgresConnectionString ==
    \E config \in PostgresConfigs :
        /\ Idle
        /\ fnCall' = [fn |-> "getConnectionString:POSTGRES", arg |-> config,
                      res |-> PostgresConnectionString(config)]

CallGetSystemSchemas ==
    \E providerId \in ProviderIds :
        /\ Idle
        /\ fnCall' = [fn |-> "getSystemSchemas", arg |-> providerId,
                      res |-> getSystemSchemas(providerId)]

FnUnchanged ==
    UNCHANGED <<poolVars, procVars, everReturned, envVars, callVars, conn, regVars,
                started, outer, tables, sheet, registry, clients, sheets>>

NextFn ==
    \/ CallSanitize /\ FnUnchanged
    \/ CallGetProviderMapping /\ FnUnchanged
    \/ CallIsProviderSupported /\ FnUnchanged
    \/ CallMysqlConnectionString /\ FnUnchanged
    \/ CallPostgresConnectionString /\ FnUnchanged
    \/ CallGetSystemSchemas /\ FnUnchanged
    \/ FnReturn /\ FnUnchanged

SpecFn == Init /\ [][NextFn]_vars

\* ------------------------------------------------------------------------
\* The attach procedures, statement by statement: attachForeignDatasource as
\* the attach loop of syncDatasources calls it, and
\* attachForeignDatasourceToConnection as
\* attachAllForeignDatasourcesToConnection calls it. fnCall holds the running
\* call: its datasource, the statements it has run, and how it ended
\* ------------------------------------------------------------------------
AttachProcedures == {"attachForeignDatasource", "attachForeignDatasourceToConnection"}

AttachProviders ==
    { <<"p", "o", "s", "t", "g", "r", "e", "s", "q", "l">>,
      <<"m", "y", "s", "q", "l">>,
      <<"s", "q", "l", "i", "t", "e">>,
      <<"p", "o", "s", "t", "g", "r", "e", "s", "q", "l", "-", "n", "e", "o", "n">>,
      <<"c", "l", "i", "c", "k", "h", "o", "u", "s", "e">> }

AttachConfigs ==
    { EmptyMap, [connectionUrl |-> <<ParsedBase>>], [path |-> <<"f">>],
      [host |-> <<"h">>, port |-> 0] }

\* what the extension SDK discovers, when it can be imported
DiscoveredSets ==
    SUBSET { <<"p", "o", "s", "t", "g", "r", "e", "s", "q", "l", "-", "n", "e", "o", "n">>,
             <<"c", "l", "i", "c", "k", "h", "o", "u", "s", "e">> }

\* the message of an error the engine throws on a statement
EngineFailure == <<"I", "O", " ", "E", "r", "r", "o", "r", ":", " ", "c", "o", "n", "n", "e", "c", "t", "i", "o", "n", " ", "f", "a", "i", "l", "e", "d">>

\* 'Datasource must have a name'
NameFailure == <<"D", "a", "t", "a", "s", "o", "u", "r", "c", "e", " ", "m", "u", "s", "t", " ", "h", "a", "v", "e", " ", "a", " ", "n", "a", "m", "e">>

\* the catch of a caller that skips 'already attached' errors
IsAlreadyMessage(message) ==
    \/ Includes(message, <<"a", "l", "r", "e", "a", "d", "y", " ", "a", "t", "t", "a", "c", "h", "e", "d">>)
    \/ Includes(message, <<"a", "l", "r", "e", "a", "d", "y", " ", "e", "x", "i", "s", "t", "s">>)

AttachAt(at) ==
    /\ ~Idle
    /\ fnCall.fn \in AttachProcedures
    /\ fnCall.res.outcome = "running"
    /\ fnCall.res.at = at

\* the mapping, name and connection string of the running call
MappingOfCall == getProviderMapping(fnCall.arg.datasource_provider)
NameOfCall == getDatasourceDatabaseName(fnCall.arg)
StringOfCall == getConnectionString(MappingOfCall.duckdbType, fnCall.arg.config)

Goto(at) == fnCall' = [fnCall EXCEPT !.res.at = at]
Ran(statement, at) ==
    fnCall' = [fnCall EXCEPT !.res.at = at, !.res.statements = Append(@, statement)]
Throws(message) ==
    fnCall' = [fnCall EXCEPT !.res.outcome = "raised", !.res.message = message]
RanAndThrows(statement, message) ==
    fnCall' = [fnCall EXCEPT !.res.outcome = "raised", !.res.message = message,
                             !.res.statements = Append(@, statement)]
Returns == fnCall' = [fnCall EXCEPT !.res.outcome = "returned"]

AttachUnchanged ==
    UNCHANGED <<instances, nextGen, nextConn, closed, instOpen, procVars, everReturned,
                repo, envEdits, engineViews, callVars, conn, regVars, started, outer,
                tables, sheet, registry, clients, sheets>>

\* the caller reaches the call: the attach loop for a foreign datasource that
\* is checked and not in currentAttached, or attachAll for any foreign one
AttachCall(procedure) ==
    /\ Idle
    /\ \E d \in Ids, provider \in AttachProviders, config \in AttachConfigs :
          /\ repo[d].present /\ repo[d].kind = "foreign"
          /\ procedure = "attachForeignDatasource" =>
                 d \notin wrappers[instances].attachedDatasources
          /\ fnCall' = [fn |-> procedure,
                        arg |-> [id |-> d, name |-> NameOf(d),
                                 datasource_provider |-> provider, config |-> config],
                        res |-> [at |-> "mapping", statements |-> <<>>,
                                 outcome |-> "running", message |-> <<>>, log |-> <<>>,
                                 listed |-> FALSE, enumerated |-> <<>>, passed |-> <<>>,
                                 tables |-> <<>>,
                                 attachedBefore |->
                                     wrappers[instances].attachedDatasources]]
    /\ UNCHANGED <<wrappers, catalogs>>
    /\ AttachUnchanged

\* getProviderMapping, the unsupported-provider error, and the name
AttachResolve ==
    /\ AttachAt("mapping")
    /\ IF MappingOfCall = Null
       THEN \E discovered \in DiscoveredSets :
               Throws(UnsupportedMessage(fnCall.arg.datasource_provider,
                                         getSupportedProviders(discovered)))
       ELSE IF NameOfCall = Thrown
       THEN Throws(NameFailure)
       ELSE IF MappingOfCall.requiresExtension /\ "extensionName" \in DOMAIN MappingOfCall
       THEN Goto("install")
       ELSE Goto("string")
    /\ UNCHANGED <<wrappers, catalogs>>
    /\ AttachUnchanged

\* await conn.run(`INSTALL ${mapping.extensionName}`)
AttachInstall ==
    /\ AttachAt("install")
    /\ LET statement == [stmt |-> "INSTALL", arg |-> MappingOfCall.extensionName]
       IN \/ Ran(statement, "load")
          \/ RanAndThrows(statement, EngineFailure)
    /\ UNCHANGED <<wrappers, catalogs>>
    /\ AttachUnchanged

\* await conn.run(`LOAD ${mapping.extensionName}`)
AttachLoad ==
    /\ AttachAt("load")
    /\ LET statement == [stmt |-> "LOAD", arg |-> MappingOfCall.extensionName]
       IN \/ Ran(statement, "string")
          \/ RanAndThrows(statement, EngineFailure)
    /\ UNCHANGED <<wrappers, catalogs>>
    /\ AttachUnchanged

\* mapping.getConnectionString(config): attachForeignDatasourceToConnection
\* returns when the message of its error includes 'requires'; otherwise the
\* error leaves the procedure. With a connection string the ATTACH statement
\* is built and run
AttachString ==
    /\ AttachAt("string")
    /\ IF "error" \in DOMAIN StringOfCall
       THEN IF /\ fnCall.fn = "attachForeignDatasourceToConnection"
               /\ Includes(StringOfCall.error, <<"r", "e", "q", "u", "i", "r", "e", "s">>)
            THEN Returns
            ELSE Throws(StringOfCall.error)
       ELSE Ran([stmt |-> "ATTACH", arg |-> NameOfCall,
                 type |-> MappingOfCall.duckdbType], "attach")
    /\ UNCHANGED <<wrappers, catalogs>>
    /\ AttachUnchanged

\* the ATTACH statement settles: an 'already attached' error is passed over
AttachRun ==
    /\ AttachAt("attach")
    /\ \E engineOk \in BOOLEAN :
          LET res == AttachResult(NameOfCall, engineOk)
          IN /\ catalogs' = IF res = "ok" THEN catalogs \cup {NameOfCall} ELSE catalogs
             /\ IF ~AttachTolerated(res) THEN Throws(EngineFailure)
                ELSE IF fnCall.fn = "attachForeignDatasourceToConnection" THEN Returns
                ELSE Goto("enumerate")
    /\ UNCHANGED wrappers
    /\ AttachUnchanged

\* most rows the table-enumeration query gives
MaxRows == 2

\* rows of the enumeration: an ordinary table, a table of a system schema
\* written with capitals, a table with a system name, a table without a
\* schema, and a table whose name holds '_secrets'
EnumeratedRows ==
    { [table_schema |-> <<"p", "u", "b", "l", "i", "c">>, table_name |-> <<"t">>],
      [table_schema |-> <<"I", "n", "f", "o", "r", "m", "a", "t", "i", "o", "n", "_", "S", "c", "h", "e", "m", "a">>,
       table_name |-> <<"u">>],
      [table_schema |-> <<"p", "u", "b", "l", "i", "c">>, table_name |-> <<"p", "g", "_", "s", "t", "a", "t">>],
      [table_schema |-> <<>>, table_name |-> <<"w">>],
      [table_schema |-> <<"p", "u", "b", "l", "i", "c">>, table_name |-> <<"u", "s", "e", "r", "_", "s", "e", "c", "r", "e", "t", "s">>] }

RowLists ==
    {rows \in UNION {[1..k -> EnumeratedRows] : k \in 0..MaxRows} :
        \A i, j \in 1..Len(rows) : rows[i] = rows[j] => i = j}

\* table.table_schema || 'main'
SchemaNameOf(row) ==
    IF row.table_schema = <<>> THEN <<"m", "a", "i", "n">> ELSE row.table_schema

\* schemaDefinition of a table whose DESCRIBE failed
NoSchema == [undefined |-> TRUE]

\* the entry pushed to tablesInfo
TableEntry(databaseName, schemaName, tableName, described) ==
    [schema |-> schemaName, table |-> tableName,
     path |-> databaseName \o <<".">> \o schemaName \o <<".">> \o tableName,
     schemaDefinition |-> IF described
                          THEN [databaseName |-> schemaName, schemaName |-> schemaName,
                                tables |-> <<tableName>>]
                          ELSE NoSchema]

\* the row the table loop is at
RowOfCall == fnCall.res.enumerated[Len(fnCall.res.passed) + 1]

\* the loop passes the row, with what happened to it
Passes(how) == Append(fnCall.res.passed, how)

\* attachForeignDatasource reads the tables of the attached database
AttachEnumerate ==
    /\ AttachAt("enumerate")
    /\ LET statement == [stmt |-> "TABLES", arg |-> NameOfCall]
       IN \/ \E rows \in RowLists :
                fnCall' = [fnCall EXCEPT !.res.at = "loop",
                                         !.res.statements = Append(@, statement),
                                         !.res.listed = TRUE,
                                         !.res.enumerated = rows]
          \/ RanAndThrows(statement, EngineFailure)
    /\ UNCHANGED <<wrappers, catalogs>>
    /\ AttachUnchanged

\* the table loop turns to the next row: rows of system schemas and rows
\* with system table names are skipped, the others are probed; after the last
\* row the procedure returns tablesInfo
AttachTableNext ==
    /\ AttachAt("loop")
    /\ IF Len(fnCall.res.passed) = Len(fnCall.res.enumerated)
       THEN Returns
       ELSE IF \/ IsSystemSchema(getSystemSchemas(fnCall.arg.datasource_provider),
                                 SchemaNameOf(RowOfCall))
               \/ isSystemTableName(RowOfCall.table_name)
       THEN fnCall' = [fnCall EXCEPT !.res.passed = Passes("skipped")]
       ELSE Goto("probe")
    /\ UNCHANGED <<wrappers, catalogs>>
    /\ AttachUnchanged

\* SELECT 1 FROM the table: on an error the table is skipped, with a warning
\* unless the message is one of a permission or missing-relation error
AttachProbe ==
    /\ AttachAt("probe")
    /\ \E answer \in {"ok", "permission", "other"} :
          fnCall' =
              IF answer = "ok" THEN [fnCall EXCEPT !.res.at = "describe"]
              ELSE [fnCall EXCEPT !.res.at = "loop",
                                  !.res.passed = Passes(answer),
                                  !.res.log = IF answer = "other"
                                              THEN Append(@, [level |-> "warn",
                                                              ds |-> fnCall.arg.id,
                                                              message |-> EngineFailure])
                                              ELSE @]
    /\ UNCHANGED <<wrappers, catalogs>>
    /\ AttachUnchanged

\* DESCRIBE the table, then tablesInfo.push
AttachDescribe ==
    /\ AttachAt("describe")
    /\ \E described \in BOOLEAN :
          fnCall' = [fnCall EXCEPT
                        !.res.at = "loop",
                        !.res.passed = Passes(IF described THEN "described" ELSE "undescribed"),
                        !.res.tables = Append(@, TableEntry(NameOfCall, SchemaNameOf(RowOfCall),
                                                            RowOfCall.table_name, described))]
    /\ UNCHANGED <<wrappers, catalogs>>
    /\ AttachUnchanged

\* the caller goes on. The attach loop: currentAttached.add(dsId), or its
\* catch logs with console.error. attachAll: its catch logs with
\* console.warn unless the error is an 'already attached' one
AttachSettle ==
    /\ ~Idle
    /\ fnCall.fn \in AttachProcedures
    /\ fnCall.res.outcome \in {"returned", "raised"}
    /\ fnCall.res.at # "settled"
    /\ LET raised == fnCall.res.outcome = "raised"
           entry(level) == [level |-> level, ds |-> fnCall.arg.id,
                            message |-> fnCall.res.message]
       IN IF fnCall.fn = "attachForeignDatasource"
          THEN /\ wrappers' = IF raised THEN wrappers
                              ELSE [wrappers EXCEPT ![instances].attachedDatasources =
                                                        @ \cup {fnCall.arg.id}]
               /\ fnCall' = [fnCall EXCEPT !.res.at = "settled",
                                           !.res.log = IF raised
                                                       THEN Append(@, entry("error"))
                                                       ELSE @]
          ELSE /\ wrappers' = wrappers
               /\ fnCall' = [fnCall EXCEPT !.res.at = "settled",
                                           !.res.log =
                                               IF raised /\ ~IsAlreadyMessage(fnCall.res.message)
                                               THEN Append(@, entry("warn"))
                                               ELSE @]
    /\ UNCHANGED catalogs
    /\ AttachUnchanged

\* the caller turns to the next datasource
AttachNext ==
    /\ ~Idle
    /\ fnCall.fn \in AttachProcedures
    /\ fnCall.res.at = "settled"
    /\ fnCall' = NoCall
    /\ UNCHANGED <<wrappers, catalogs>>
    /\ AttachUnchanged

NextAttach ==
    \/ \E procedure \in AttachProcedures : AttachCall(procedure)
    \/ AttachResolve
    \/ AttachInstall
    \/ AttachLoad
    \/ AttachString
    \/ AttachRun
    \/ AttachEnumerate
    \/ AttachTableNext
    \/ AttachProbe
    \/ AttachDescribe
    \/ AttachSettle
    \/ AttachNext

SpecAttach == InitListed /\ [][NextAttach]_vars

\* ------------------------------------------------------------------------
\* Properties of the pool
\* ------------------------------------------------------------------------

\* the registered wrapper, when there is one
Current == wrappers[instances]

AllHeld == UNION {held[p] : p \in Procs}

\* handles acquired from the registered session and not yet returned
Outstanding == {e \in AllHeld : e.from = instances}

\* C1: in every reachable state of a session, under any interleaving of
\* getConnection and returnConnection calls of concurrent callers,
\* 0 <= activeConnections <= maxConnections.
C1_ActiveWithinBounds ==
    instances # 0 =>
        /\ 0 <= Current.activeConnections
        /\ Current.activeConnections <= Current.maxConnections

\* C2: when every acquired handle is returned exactly once, activeConnections
\* of a session equals the number of handles acquired from that session and
\* not yet returned, over getInstance, getConnection, returnConnection and
\* closeInstance calls.
C2_HandlesAccounted ==
    instances # 0 => Current.activeConnections = Cardinality(Outstanding)

\* C3: with maxConnections = 2, of three concurrent getConnection calls on one
\* session only two obtain a connection before a handle has been returned; the
\* third obtains one only after a return.
C3_ThirdWaitsForReturn ==
    (instances # 0 /\ ~everReturned) =>
        Cardinality(Outstanding) <= maxConnectionsPerInstance

\* ------------------------------------------------------------------------
\* Properties of reconciliation
\* ------------------------------------------------------------------------

\* the wrapper the call of p works on
W(p) == wrappers[swrap[p]]

Registered(p) == W(p).attachedDatasources \cup DOMAIN W(p).viewRegistry

\* the sync call of p has returned to its caller without error
SyncReturned(p) == pc[p] = "sync_done"

\* no engine call of the running call failed
AllSucceeded(p) == \A r \in issued[p] : ~r.raised /\ r.res \in {"ok", "already"}

\* C4: when syncDatasources returns, every id in attachedDatasources and every
\* key of viewRegistry is in the checked-id list, also when a detach or drop
\* fails or an attached id is no longer resolved by the repository.
C4_RegistriesWithinChecked ==
    \A p \in SyncProcs : SyncReturned(p) => Registered(p) \subseteq checked[p]

\* C5: no datasource id is at once in attachedDatasources and a key of
\* viewRegistry, over any sequence of syncDatasources and listAvailableSheets
\* calls, also when a datasource's classification changes between calls.
C5_ForeignNativeExclusive ==
    \A g \in Gens :
        wrappers[g].attachedDatasources \cap DOMAIN wrappers[g].viewRegistry = {}

\* C6: from empty registries, a sync with checked = [A, B], A foreign and B
\* native, whose attach and view creation succeed, ends with
\* attachedDatasources = {A} and viewRegistry = {B -> the produced view name}.
C6_Scenario(p) ==
    /\ SyncReturned(p)
    /\ pre[p].attachedDatasources = {}
    /\ DOMAIN pre[p].viewRegistry = {}
    /\ checked[p] = {IdA, IdB}
    /\ foreignDatabases[p] = {IdA}
    /\ duckdbNative[p] = {IdB}
    /\ AllSucceeded(p)

C6_Outcome(p) ==
    /\ W(p).attachedDatasources = {IdA}
    /\ DOMAIN W(p).viewRegistry = {IdB}
    /\ W(p).viewRegistry[IdB] = ViewNameOf(IdB)
    /\ \E r \in issued[p] : r.stmt = "CREATE" /\ r.ds = IdB /\ r.arg = W(p).viewRegistry[IdB]

C6_FreshSyncRegistersBoth ==
    \A p \in SyncProcs : C6_Scenario(p) => C6_Outcome(p)

C6_Witness == \E p \in SyncProcs : C6_Scenario(p) /\ C6_Outcome(p)

\* C7: with foreign A attached and native B registered, a sync with
\* checked = [B] detaches A's catalog from the engine and removes A from
\* attachedDatasources, issues no drop or create for B and leaves
\* viewRegistry[B] unchanged; a later sync with checked = [A, B] puts A back
\* into attachedDatasources.
C7_Scenario(p) ==
    /\ SyncReturned(p)
    /\ pre[p].attachedDatasources = {IdA}
    /\ DOMAIN pre[p].viewRegistry = {IdB}
    /\ checked[p] = {IdB}
    /\ foreignDatabases[p] = {IdA}
    /\ duckdbNative[p] = {IdB}
    /\ \A r \in issued[p] : r.res # "error"

C7_Recheck(p) ==
    /\ SyncReturned(p)
    /\ pre[p].attachedDatasources = {}
    /\ DOMAIN pre[p].viewRegistry = {IdB}
    /\ checked[p] = {IdA, IdB}
    /\ foreignDatabases[p] = {IdA}
    /\ AllSucceeded(p)

C7_UncheckDetachesCatalog ==
    /\ \A p \in SyncProcs :
        C7_Scenario(p) =>
            /\ getDatasourceDatabaseName(Datasource(IdA)) \notin catalogs
            /\ IdA \notin W(p).attachedDatasources
            /\ \A r \in issued[p] : r.ds # IdB
            /\ IdB \in DOMAIN W(p).viewRegistry
            /\ W(p).viewRegistry[IdB] = pre[p].viewRegistry[IdB]
    /\ \A p \in SyncProcs :
          C7_Recheck(p) => IdA \in W(p).attachedDatasources

\* C8: a failing attach, view creation, detach or drop of one datasource does
\* not make syncDatasources throw; the failed datasource is absent from (or
\* left in) the registries, and every checked datasource whose own attach or
\* creation succeeds is registered when the call returns.
C8_Processed(p, d) ==
    \/ d \in foreignDatabases[p] /\ d \in W(p).attachedDatasources
    \/ d \in duckdbNative[p] /\ d \in DOMAIN W(p).viewRegistry
    \/ \E r \in issued[p] : r.ds = d /\ r.stmt \in {"ATTACH", "CREATE"} /\ r.raised

C8_FailureLeft(p, r) ==
    /\ r.stmt = "ATTACH" => r.ds \notin W(p).attachedDatasources
    /\ r.stmt = "CREATE" => r.ds \notin DOMAIN W(p).viewRegistry
    /\ r.stmt = "DROP" => r.ds \in DOMAIN W(p).viewRegistry

C8_FailuresIsolated ==
    \A p \in SyncProcs :
        /\ pc[p] \notin {"sync_abort", "sync_rejected"}
        /\ SyncReturned(p) =>
              /\ \A d \in checked[p] \cap (foreignDatabases[p] \cup duckdbNative[p]) :
                    C8_Processed(p, d)
              /\ \A r \in issued[p] : r.raised => C8_FailureLeft(p, r)

\* a call in which one datasource failed and another one was registered
C8_Witness ==
    \E p \in SyncProcs :
        /\ SyncReturned(p)
        /\ \E r \in issued[p] : r.raised /\ r.stmt \in {"ATTACH", "CREATE", "DROP"}
        /\ \E r \in issued[p] :
              /\ ~r.raised
              /\ \/ r.stmt = "ATTACH" /\ r.ds \in W(p).attachedDatasources
                 \/ r.stmt = "CREATE" /\ r.ds \in DOMAIN W(p).viewRegistry

\* C9: an ATTACH statement that fails because the catalog is already attached
\* does not make attach raise, and a sync issues no ATTACH for an id already
\* in attachedDatasources and leaves it there.
C9_AttachIdempotent ==
    \A p \in SyncProcs :
        /\ \A r \in issued[p] :
              (r.stmt = "ATTACH" /\ r.res = "already" /\ ~r.enumFailed) =>
                  (~r.raised /\ (SyncReturned(p) => r.ds \in W(p).attachedDatasources))
        /\ op[p] = "sync" =>
              \A d \in pre[p].attachedDatasources \cap checked[p] :
                  /\ \A r \in issued[p] : ~(r.stmt = "ATTACH" /\ r.ds = d)
                  /\ d \in W(p).attachedDatasources

\* an attach on an already attached catalog, in a call that also kept an id
\* that was attached before
C9_Witness ==
    \E p \in SyncProcs :
        /\ SyncReturned(p)
        /\ \E r \in issued[p] : r.stmt = "ATTACH" /\ r.res = "already" /\ ~r.raised
        /\ pre[p].attachedDatasources \cap checked[p] # {}

\* C10: the catalog name detach uses for a datasource is the catalog name
\* under which attach attached it.
C10_DetachUsesAttachName ==
    \A p \in SyncProcs :
        \A r \in issued[p] :
            r.stmt = "DETACH" => r.arg = getDatasourceDatabaseName(Datasource(r.ds))

\* C11: within one syncDatasources call every DETACH and every DROP VIEW is
\* issued before any ATTACH and before any view creation: when a DETACH or a
\* DROP is awaited, the call has issued no ATTACH and no creation yet.
C11_RemovalsBeforeAdditions ==
    \A p \in SyncProcs :
        (pc[p] = "sync_await" /\ cur[p][1] \in {1, 2}) =>
            \A r \in issued[p] : r.stmt \notin {"ATTACH", "CREATE"}

\* a call that has issued a removal and now awaits an addition
C11_Witness ==
    \E p \in SyncProcs :
        /\ pc[p] = "sync_await"
        /\ cur[p][1] \in {3, 4}
        /\ \E r \in issued[p] : r.stmt \in {"DETACH", "DROP"}

\* the catalog attach uses for a datasource id
CatalogOf(d) == getDatasourceDatabaseName(Datasource(d))

\* C35: whenever a syncDatasources call returns, a foreign datasource's
\* catalog is attached in the engine if and only if its id is in
\* attachedDatasources: a failed attach (for example the table-enumeration
\* query failing after ATTACH succeeded) leaves no attached catalog behind,
\* and an id removed by the detach phase no longer has an attached catalog.
C35_CatalogsMatchRegistry ==
    \A p \in SyncProcs :
        SyncReturned(p) =>
            \A d \in foreignDatabases[p] \cup pre[p].attachedDatasources :
                (CatalogOf(d) \in catalogs) <=> (d \in W(p).attachedDatasources)

\* C36: any two distinct datasource ids that are both in attachedDatasources
\* are backed by two distinct engine catalogs: the catalog-name derivation
\* never maps two different datasources to the same catalog name, so the
\* 'already exists' tolerance of ATTACH never records a datasource as
\* attached on top of another datasource's catalog.
C36_DistinctCatalogs ==
    \A g \in Gens :
        \A d1, d2 \in wrappers[g].attachedDatasources :
            d1 # d2 => CatalogOf(d1) # CatalogOf(d2)

\* C38: whenever a syncDatasources call returns with a natively-ingestible
\* datasource id checked and present in viewRegistry, the view recorded for
\* that id exists in the engine, also when the view was dropped outside the
\* manager before that sync.
C38_RegisteredViewsExist ==
    \A p \in SyncProcs :
        SyncReturned(p) =>
            \A d \in (checked[p] \cap duckdbNative[p]) \cap DOMAIN W(p).viewRegistry :
                W(p).viewRegistry[d] \in engineViews

\* ------------------------------------------------------------------------
\* Properties of the session registry
\* ------------------------------------------------------------------------

\* C12: getInstance is idempotent: once a getInstance call for the key has
\* completed (the key has an entry), and until closeInstance, every later call
\* returns that same wrapper and opens no engine instance. A call returns the
\* wrapper the entry holds, so the entry must not pass from one wrapper to
\* another and no instance may be opened while the entry exists.
C12_GetInstanceIdempotent ==
    [][(instances # 0 /\ instances' # 0) =>
          (instances' = instances /\ instOpen' = instOpen)]_vars

\* C13: at most one engine instance is open for the key at any time, and
\* every call in flight works on the wrapper registered for the key, also when
\* calls for a key without a session interleave inside getInstance.
C13_OneEngineInstance ==
    /\ Cardinality(instOpen) <= 1
    /\ \A p \in Procs : (wref[p] # 0 /\ instances # 0) => wref[p] = instances

\* C16: a handle is never in the pool of a wrapper other than the one it was
\* opened from; a handle returned after its session was closed is closed and
\* not pooled, also when a new session exists under the key.
C16_NoHandleAcrossSessions ==
    instances # 0 =>
        \A i \in 1..Len(Current.connectionPool) :
            /\ Current.connectionPool[i].gen \in instOpen
            /\ Current.connectionPool[i] \notin closed

\* C14: closeInstance on an existing session closes every idle connection of
\* its pool, closes the engine instance and removes the registry entry, also
\* when a closeSync raises; on a key without a session it changes nothing; in
\* both cases it does not raise.
C14_CloseStep(p) ==
    /\ pc'[p] # "close_rejected"
    /\ IF instances = 0
       THEN UNCHANGED vars
       ELSE /\ instances' = 0
            /\ SeqToSet(Current.connectionPool) \subseteq closed'
            /\ instances \notin instOpen'

C14_CloseRemovesSession ==
    [][\A p \in LifeProcs : CloseInstance(p) => C14_CloseStep(p)]_vars

\* a session with an idle pooled connection has been closed
C14_Witness ==
    /\ instances = 0
    /\ \E g \in Gens :
          /\ g < nextGen
          /\ g \notin instOpen
          /\ wrappers[g].connectionPool # <<>>
          /\ SeqToSet(wrappers[g].connectionPool) \subseteq closed

\* C15: after closeAll returns the registry is empty and every session that
\* existed when it was called has been closed, for every set of keys the
\* registry can hold, with ':' in or an empty workspace or conversation id.
C15_CloseAllEmptiesRegistry ==
    caPc = "done" => (sessions = {} /\ caKeys \cap sessions = {})

\* ------------------------------------------------------------------------
\* Properties of listAvailableSheets and of the view registry
\* ------------------------------------------------------------------------

\* the view of the entry a probe is awaited for exists in the database
ProbedViewExists(p) == EngineUnquote(EscapeQuotes(cur[p][3])) \in engineViews

\* the entry the first pass emits for the probed registry entry
ProbedEntry(p) == SheetInfo(cur[p][3], "view", cur[p][2], Undefined)

\* no two entries of a list have the same (name, fullPath) pair
NoTwoAlike(list) ==
    \A e1 \in BagToSet(list), e2 \in BagToSet(list) :
        (e1.name = e2.name /\ e1.fullPath = e2.fullPath) =>
            (e1 = e2 /\ CopiesIn(e1, list) = 1)

\* C22: for every session state and every result of catalog introspection,
\* the list returned by listAvailableSheets contains no two entries with the
\* same (name, fullPath) pair.
C22_NoDuplicateSheets ==
    \A p \in ListProcs : pc[p] = "list_done" => NoTwoAlike(sheets[p])

\* the state SpecLists starts in: left by a sync of a-1 and b-2
ListedState ==
    /\ instances = 1
    /\ wrappers[1].attachedDatasources = {IdA}
    /\ wrappers[1].viewRegistry = MapSet(EmptyMap, IdB, ViewNameOf(IdB))
    /\ wrappers[1].connectionPool = <<[gen |-> 1, n |-> 1]>>
    /\ wrappers[1].activeConnections = 0
    /\ catalogs = {getDatasourceDatabaseName(Datasource(IdA))}
    /\ engineViews = {ViewNameOf(IdB)}
    /\ \A p \in SyncProcs : pc[p] = "idle"
    /\ nextConn = 2 /\ nextGen = 2 /\ calls = 1

\* C23: self-healing: when the view of a viewRegistry entry no longer answers
\* the probe (it was dropped outside the manager), listAvailableSheets
\* deletes the entry and does not emit the view; an entry whose view still
\* exists is kept and emitted with type 'view'.
C23_SelfHealing ==
    [][\A p \in SyncProcs : ListProbeResume(p) =>
          IF ProbedViewExists(p)
          THEN /\ cur[p][2] \in DOMAIN wrappers'[swrap[p]].viewRegistry
               /\ BagIn(ProbedEntry(p), sheets'[p])
          ELSE /\ cur[p][2] \notin DOMAIN wrappers'[swrap[p]].viewRegistry
               /\ ~BagIn(ProbedEntry(p), sheets'[p])]_vars

IsIdentifier(s) ==
    /\ s # <<>>
    /\ s[1] \in LowerChars
    /\ \A i \in 1..Len(s) : s[i] \in LowerChars \cup DigitChars \cup {"_"}

\* C25: sanitizeDatabaseName is deterministic, and for every input whose
\* trimmed form is non-empty it returns, without raising, an identifier
\* matching ^[a-z][a-z0-9_]*$; it raises when the trimmed input is empty.
C25_SanitizeGivesIdentifier ==
    fnCall.fn = "sanitizeDatabaseName" =>
        /\ fnCall.res = sanitizeDatabaseName(fnCall.arg)
        /\ IF Trim(fnCall.arg) = <<>>
           THEN fnCall.res = Thrown
           ELSE fnCall.res # Thrown /\ IsIdentifier(fnCall.res)

\* a name with a leading digit, an invalid character and an upper-case
\* letter comes back prefixed, with an underscore, in lower case
C25_Witness ==
    /\ fnCall.fn = "sanitizeDatabaseName"
    /\ fnCall.arg = <<"1", "-", "S">>
    /\ fnCall.res = <<"d", "b", "_", "1", "_", "s">>

\* C40: sanitizeDatabaseName is idempotent: for every input x on which it
\* succeeds, sanitizeDatabaseName(sanitizeDatabaseName(x)) =
\* sanitizeDatabaseName(x).
C40_SanitizeIdempotent ==
    (fnCall.fn = "sanitizeDatabaseName" /\ fnCall.res # Thrown) =>
        sanitizeDatabaseName(fnCall.res) = fnCall.res

\* the provider id is the word, in any spelling of its letters
IsWordOf(providerId, word) == ToLowerCase(providerId) = word

\* the provider id is the word followed by '-' and a variant
IsVariantOf(providerId, word) ==
    /\ Len(providerId) > Len(word)
    /\ ToLowerCase(SubSeq(providerId, 1, Len(word) + 1)) = word \o <<"-">>

\* the mapping C27 states for a provider id
StatedMapping(providerId) ==
    IF IsWordOf(providerId, <<"p", "o", "s", "t", "g", "r", "e", "s", "q", "l">>) \/ IsVariantOf(providerId, <<"p", "o", "s", "t", "g", "r", "e", "s", "q", "l">>)
    THEN [duckdbType |-> "POSTGRES", requiresExtension |-> TRUE, extensionName |-> "postgres"]
    ELSE IF IsWordOf(providerId, <<"m", "y", "s", "q", "l">>)
    THEN [duckdbType |-> "MYSQL", requiresExtension |-> TRUE, extensionName |-> "mysql"]
    ELSE IF IsWordOf(providerId, <<"s", "q", "l", "i", "t", "e">>) \/ IsWordOf(providerId, <<"d", "u", "c", "k", "d", "b">>)
    THEN [duckdbType |-> "SQLITE", requiresExtension |-> FALSE]
    ELSE Null

\* C27: getProviderMapping matches provider ids case-insensitively:
\* 'postgresql' and any 'postgresql-<variant>' map to POSTGRES (extension
\* 'postgres'), 'mysql' maps to MYSQL (extension 'mysql'), 'sqlite' and
\* 'duckdb' map to SQLITE (no extension); every other provider id yields
\* null, and isProviderSupported(p) is true exactly when
\* getProviderMapping(p) is non-null.
C27_ProviderMapping ==
    /\ fnCall.fn = "getProviderMapping" => fnCall.res = StatedMapping(fnCall.arg)
    /\ fnCall.fn = "isProviderSupported" =>
           fnCall.res = (StatedMapping(fnCall.arg) # Null)

\* a variant of postgresql written with capitals is mapped to POSTGRES
C27_Witness ==
    /\ fnCall.fn = "getProviderMapping"
    /\ fnCall.arg = <<"P", "o", "s", "t", "g", "r", "e", "s", "q", "l", "-", "S", "u", "p", "a", "b", "a", "s", "e">>
    /\ fnCall.res.duckdbType = "POSTGRES"

\* the field is present: the config has it, with a value that is neither
\* the empty string nor 0
Present(config, field) ==
    /\ field \in DOMAIN config
    /\ IF field = "port" THEN config[field] # 0 ELSE config[field] # <<>>

\* C28: the MySQL connection-string builder never raises: it returns
\* config.connectionUrl unchanged when that field is present (set to a
\* non-empty value), and otherwise returns
\* 'host=H port=P user=U password=W database=D' where each absent field takes
\* its default (localhost, 3306, root, empty password, empty database).
C28_MysqlBuilder ==
    fnCall.fn = "getConnectionString:MYSQL" =>
        LET config == fnCall.arg
            hostH == IF Present(config, "host") THEN config["host"] ELSE <<"l", "o", "c", "a", "l", "h", "o", "s", "t">>
            portP == IF Present(config, "port") THEN config["port"] ELSE 3306
            userU == IF Present(config, "user") THEN config["user"] ELSE <<"r", "o", "o", "t">>
            passwordW == IF Present(config, "password") THEN config["password"] ELSE <<>>
            databaseD == IF Present(config, "database") THEN config["database"] ELSE <<>>
        IN /\ DOMAIN fnCall.res = {"value"}
           /\ IF Present(config, "connectionUrl")
              THEN fnCall.res.value = config["connectionUrl"]
              ELSE fnCall.res.value =
                       <<"h", "o", "s", "t", "=">> \o hostH
                       \o <<" ", "p", "o", "r", "t", "=">> \o NumberToString(portP)
                       \o <<" ", "u", "s", "e", "r", "=">> \o userU
                       \o <<" ", "p", "a", "s", "s", "w", "o", "r", "d", "=">> \o passwordW
                       \o <<" ", "d", "a", "t", "a", "b", "a", "s", "e", "=">> \o databaseD

\* a config with only a host and a database: port, user and password take
\* their defaults
C28_Witness ==
    /\ fnCall.fn = "getConnectionString:MYSQL"
    /\ DOMAIN fnCall.arg = {"host", "database"}
    /\ fnCall.res = Returned(<<"h", "o", "s", "t", "=", "h", " ", "p", "o", "r", "t", "=", "3", "3", "0", "6", " ", "u", "s", "e", "r", "=", "r", "o", "o", "t", " ", "p", "a", "s", "s", "w", "o", "r", "d", "=", " ", "d", "a", "t", "a", "b", "a", "s", "e", "=", "t">>)

\* the pieces of a connection URL that are neither separators nor
\* channel_binding or sslmode parameters
IsOtherPart(piece) == ~IsSeparator(piece) /\ ~IsChannelBinding(piece) /\ ~IsSslmode(piece)
OtherParts(str) == SelectSeq(str, IsOtherPart)
Holds(str, piece) == \E i \in 1..Len(str) : str[i] = piece

\* C26: for every Postgres-family connectionUrl, the connection string
\* produced by getConnectionString contains no channel_binding parameter, and
\* an sslmode=disable parameter in the input appears as sslmode=prefer in the
\* output, on both the URL-parser path and the textual-fallback path; all
\* other parts of the URL are preserved.
C26_PostgresConnectionString ==
    (fnCall.fn = "getConnectionString:POSTGRES" /\ Present(fnCall.arg, "connectionUrl")) =>
        LET input == fnCall.arg["connectionUrl"]
        IN /\ DOMAIN fnCall.res = {"value"}
           /\ \A i \in 1..Len(fnCall.res.value) : ~IsChannelBinding(fnCall.res.value[i])
           /\ Holds(input, Param("sslmode", "disable")) =>
                  /\ Holds(fnCall.res.value, Param("sslmode", "prefer"))
                  /\ ~Holds(fnCall.res.value, Param("sslmode", "disable"))
           /\ OtherParts(fnCall.res.value) = OtherParts(input)

\* C39: system-schema filtering during attach covers every provider id that
\* getProviderMapping accepts as a family member: for each provider id mapped
\* to POSTGRES (including 'postgresql-<variant>' ids) the schema set used by
\* attachForeignDatasource contains that family's system schemas (e.g.
\* pg_catalog, information_schema), and lookup is case-insensitive.
C39_SystemSchemasCoverFamily ==
    (/\ fnCall.fn = "getSystemSchemas"
     /\ getProviderMapping(fnCall.arg) # Null
     /\ getProviderMapping(fnCall.arg).duckdbType = "POSTGRES") =>
        /\ IsSystemSchema(fnCall.res, <<"p", "g", "_", "c", "a", "t", "a", "l", "o", "g">>)
        /\ IsSystemSchema(fnCall.res, <<"i", "n", "f", "o", "r", "m", "a", "t", "i", "o", "n", "_", "s", "c", "h", "e", "m", "a">>)
        /\ IsSystemSchema(fnCall.res, <<"P", "G", "_", "C", "a", "t", "a", "l", "o", "g">>)

\* ------------------------------------------------------------------------
\* Properties of the attach procedures
\* ------------------------------------------------------------------------

\* an attach call is over and its caller has gone on
AttachSettled ==
    /\ ~Idle
    /\ fnCall.fn \in AttachProcedures
    /\ fnCall.res.at = "settled"

HasStatement(kind) ==
    \E i \in 1..Len(fnCall.res.statements) : fnCall.res.statements[i].stmt = kind

\* the call got as far as building the connection string, and that failed
\* for a missing config field
MissingConfig ==
    /\ MappingOfCall # Null
    /\ "error" \in DOMAIN StringOfCall
    /\ \/ fnCall.res.outcome = "returned"
       \/ fnCall.res.message = StringOfCall.error

\* C29: in both attach procedures, when building the connection string fails
\* because a required config field is missing, the datasource is skipped
\* silently: no ATTACH statement is executed, no error is raised to the
\* caller of attach, and the failure is not logged as an error.
C29_MissingConfigSkipped ==
    (AttachSettled /\ MissingConfig) =>
        /\ ~HasStatement("ATTACH")
        /\ fnCall.res.outcome = "returned"
        /\ \A i \in 1..Len(fnCall.res.log) : fnCall.res.log[i].level # "error"

\* C30: when a datasource's provider has no mapping, attach fails with an
\* unsupported-provider error that lists the supported providers, and it
\* does so before executing any engine statement (no INSTALL, LOAD or ATTACH
\* is issued) and without changing attachedDatasources.
C30_UnsupportedProvider ==
    (AttachSettled /\ MappingOfCall = Null) =>
        /\ fnCall.res.outcome = "raised"
        /\ Includes(fnCall.res.message,
                    UnsupportedMessageBare(fnCall.arg.datasource_provider, <<>>))
        /\ \A id \in {<<"p", "o", "s", "t", "g", "r", "e", "s", "q", "l">>,
                       <<"m", "y", "s", "q", "l">>,
                       <<"s", "q", "l", "i", "t", "e">>} :
               Includes(fnCall.res.message, id)
        /\ fnCall.res.statements = <<>>
        /\ wrappers[instances].attachedDatasources = fnCall.res.attachedBefore

\* the attach loop of syncDatasources met a datasource of provider
\* clickhouse, and attach rejected it
C30_Witness ==
    /\ AttachSettled
    /\ fnCall.fn = "attachForeignDatasource"
    /\ fnCall.arg.datasource_provider = <<"c", "l", "i", "c", "k", "h", "o", "u", "s", "e">>
    /\ fnCall.res.outcome = "raised"

\* the rows the table loop has to return when systemSchemas are the system
\* schemas: neither of a system schema nor with a system table name, and
\* answered by the probe
Returnable(systemSchemas, i) ==
    /\ ~IsSystemSchema(systemSchemas, SchemaNameOf(fnCall.res.enumerated[i]))
    /\ ~isSystemTableName(fnCall.res.enumerated[i].table_name)
    /\ fnCall.res.passed[i] \in {"described", "undescribed"}

RECURSIVE ReturnableUpTo(_, _)
ReturnableUpTo(systemSchemas, n) ==
    IF n = 0 THEN <<>>
    ELSE ReturnableUpTo(systemSchemas, n - 1)
            \o (IF Returnable(systemSchemas, n) THEN <<n>> ELSE <<>>)

\* the table enumeration of an attachForeignDatasource call succeeded and the
\* call is over
TablesListed ==
    /\ AttachSettled
    /\ fnCall.fn = "attachForeignDatasource"
    /\ fnCall.res.listed

\* the call returned, as tables, the returnable rows in their order, and a
\* table has no schemaDefinition exactly when its DESCRIBE failed
TablesAre(systemSchemas) ==
    LET rows == fnCall.res.enumerated
        kept == ReturnableUpTo(systemSchemas, Len(rows))
    IN /\ fnCall.res.outcome = "returned"
       /\ Len(fnCall.res.passed) = Len(rows)
       /\ Len(fnCall.res.tables) = Len(kept)
       /\ \A k \in 1..Len(kept) :
              /\ fnCall.res.tables[k].schema = SchemaNameOf(rows[kept[k]])
              /\ fnCall.res.tables[k].table = rows[kept[k]].table_name
              /\ (fnCall.res.tables[k].schemaDefinition = NoSchema)
                     <=> (fnCall.res.passed[kept[k]] = "undescribed")

\* the system schemas of the engine family the provider of the call belongs to
FamilySystemSchemas ==
    LET family == MappingOfCall.duckdbType
    IN getSystemSchemas(IF family = "POSTGRES" THEN <<"p", "o", "s", "t", "g", "r", "e", "s", "q", "l">>
                        ELSE IF family = "MYSQL" THEN <<"m", "y", "s", "q", "l">>
                        ELSE <<"s", "q", "l", "i", "t", "e">>)

\* with the set getSystemSchemas gives for the provider id of the call, the
\* tables returned are the rows that pass the filter and the probe; no probe
\* and no DESCRIBE makes the call fail
TablesFollowTheLookup ==
    TablesListed => TablesAre(getSystemSchemas(fnCall.arg.datasource_provider))

\* two tables were enumerated: the probe of the first failed with an
\* unexpected error, the second was returned although its DESCRIBE failed
ProbeAndDescribeFailed ==
    /\ TablesListed
    /\ fnCall.res.passed = <<"other", "undescribed">>
    /\ Len(fnCall.res.tables) = 1
    /\ fnCall.res.tables[1].schemaDefinition = NoSchema

\* C31: the tables returned by attachForeignDatasource are exactly the
\* enumerated tables whose schema is not a system schema, whose name is not a
\* system table name and whose accessibility probe succeeded; a failing probe
\* (of any error kind) or a failing DESCRIBE on one table never makes the
\* attach fail and never removes other tables from the result (a failing
\* DESCRIBE only leaves schemaDefinition undefined for that table).
C31_TablesReturned == TablesListed => TablesAre(FamilySystemSchemas)

\* the callers holding handle h, and whether h is idle in a pool
HoldersOf(h) == {p \in Procs : \E e \in held[p] : e.conn = h}
IdleInPool(h) == \E g \in Gens : \E i \in DOMAIN wrappers[g].connectionPool :
                    wrappers[g].connectionPool[i] = h
HandlesOut == {e.conn : e \in UNION {held[p] : p \in Procs}}

\* C32: exclusive ownership: when each caller returns each acquired handle
\* exactly once, no connection handle is ever held by two callers at the same
\* time, and no handle is at the same time idle in connectionPool and held by
\* a caller, under any interleaving of getConnection and returnConnection.
C32_ExclusiveOwnership ==
    \A h \in HandlesOut :
        /\ Cardinality(HoldersOf(h)) = 1
        /\ ~IdleInPool(h)

\* the only handle opened so far was returned to the pool and is held again,
\* popped by a later getConnection
C32_Witness ==
    /\ nextConn = 2
    /\ everReturned
    /\ \E p \in Procs : held[p] # {}

\* the attached_table entries of caller p for the tables of datasource d
EntriesOfCatalog(p, d) ==
    {e \in BagToSet(sheets[p]) :
        /\ e.type = "attached_table"
        /\ e.fullPath # Undefined
        /\ StartsWith(e.fullPath, CatalogOf(d) \o <<".">>)}

\* C33: catalog-to-datasource round trip: for every datasource attached by
\* syncDatasources, each attached_table entry that listAvailableSheets emits
\* for one of its tables carries that datasource's id in datasourceId, i.e.
\* extractDatasourceIdFromDbName applied to the catalog name used at attach
\* time returns the datasource id.
C33_CatalogRoundTrip ==
    \A p \in ListProcs : pc[p] = "list_done" =>
        \A d \in wrappers[swrap[p]].attachedDatasources :
            /\ \A e \in EntriesOfCatalog(p, d) : e.datasourceId = d
            /\ extractDatasourceIdFromDbName(CatalogOf(d)) = [id |-> d]

\* the validations of renameSheet pass for the names of caller p
NamesValid(p) ==
    /\ sheet[p].oldSheetName # <<>>
    /\ sheet[p].newSheetName # <<>>
    /\ sheet[p].oldSheetName # sheet[p].newSheetName

\* C34: renameSheet never performs the rename when its preconditions fail: it
\* raises before acquiring a connection when either name is empty or both
\* names are equal, raises when the old view does not exist, and raises a
\* name-collision error whenever a view or table with the new name already
\* exists (for every possible new name); in all these cases the catalog is
\* unchanged and the acquired connection is returned.
C34_RenamePreconditions ==
    \A p \in OpsProcs : op[p] = "rename" =>
        /\ ~NamesValid(p) => (pc[p] = "rename_rejected" /\ conn[p] = NoConn)
        /\ pc[p] \in {"rename_new", "rename_apply"} =>
               sheet[p].oldSheetName \in engineViews
        /\ pc[p] = "rename_apply" => sheet[p].newSheetName \notin engineViews
        /\ (pc[p] = "rename_rejected" /\ conn[p] # NoConn) =>
               conn[p] \in SeqToSet(Current.connectionPool)

\* caller p holds the connection of its getSchema call and is inside the
\* syncDatasources call the tool makes
InNestedSync(p) == outer[p].op = "schema"

\* the getSchema call of p is over and no handle is out for it
SchemaCompleted(p) ==
    /\ p \in started
    /\ pc[p] = "idle"
    /\ conn[p] = NoConn

\* C37: no deadlock from nested acquisition: when two getSchema tool calls run
\* concurrently on the same session (each holds one connection while calling
\* syncDatasources, which acquires a second one), both calls eventually
\* complete and return their connections, under weak fairness.
C37_NestedAcquisitionCompletes ==
    (\A p \in SchemaProcs : InNestedSync(p)) ~>
        (/\ \A p \in SchemaProcs : SchemaCompleted(p)
         /\ Len(Current.connectionPool) = nextConn - 1)

\* ------------------------------------------------------------------------
\* Properties of the registry over several sessions
\* ------------------------------------------------------------------------

\* the pairs in use whose session is registered
Live == {pr \in DOMAIN clients : HasKey(PairKey(pr))}

\* two distinct pairs have two distinct wrappers
DistinctWrappers ==
    \A pr \in Live, other \in Live :
        pr # other => registry[PairKey(pr)] # registry[PairKey(other)]

\* a step leaves the session of pair other as it is: same wrapper, same
\* instance, pool, count and registries
Untouched(other) ==
    /\ HasKey(PairKey(other))'
    /\ registry'[PairKey(other)] = registry[PairKey(other)]
    /\ wrappers'[registry[PairKey(other)]] = wrappers[registry[PairKey(other)]]
    /\ (registry[PairKey(other)] \in instOpen)' = (registry[PairKey(other)] \in instOpen)
    /\ SeqToSet(wrappers[registry[PairKey(other)]].connectionPool) \cap closed' =
           SeqToSet(wrappers[registry[PairKey(other)]].connectionPool) \cap closed

\* C21: sessions are independent: for any two distinct (workspace,
\* conversationId) pairs the registry holds two distinct wrappers, and
\* getConnection, returnConnection, syncDatasources and closeInstance applied
\* to one pair leave the other pair's instance, connectionPool,
\* activeConnections, attachedDatasources and viewRegistry unchanged.
C21_SessionsIndependent ==
    /\ []DistinctWrappers
    /\ [][\A pr \in Pairs : RegOperation(pr) =>
             \A other \in Live \ {pr} : Untouched(other)]_vars

\* ------------------------------------------------------------------------
\* Properties of waiting for a connection
\* ------------------------------------------------------------------------

\* handles an operation of caller p acquired and has yet to return at a point
\* where it has finished: none of its own; a syncDatasources call made by the
\* getSchema tool finishes while the tool still holds its connection
HeldByFrames(p) == IF outer[p].op = "schema" THEN 1 ELSE 0

\* SeqToSet(pool) has as many elements as the pool has entries
NoDuplicates(pool) == Cardinality(SeqToSet(pool)) = Len(pool)

\* C17: every operation that acquires a connection (syncDatasources,
\* listAvailableSheets, renameSheet, the getSchema tool) returns each handle
\* it acquired exactly once on every path, normal or exceptional: whenever an
\* operation has finished, activeConnections is back to what it was before
\* the operation started (the handles its caller holds on its own account,
\* and the outer frame's), no handle is in the pool twice, and every
\* connection opened is either in the pool or accounted for as active.
C17_HandlesReturnedOnEveryPath ==
    \A p \in OpsProcs :
        (pc[p] \in Finished \cup {"idle"} /\ instances # 0) =>
            /\ Current.activeConnections = Cardinality(held[p]) + HeldByFrames(p)
            /\ NoDuplicates(Current.connectionPool)
            /\ Len(Current.connectionPool) + Current.activeConnections = nextConn - 1

\* renameSheet threw after it had acquired its connection, while its caller
\* held a handle of its own: the count is back at one and the handle is in
\* the pool
C17_Witness ==
    /\ pc["p1"] = "rename_rejected"
    /\ conn["p1"] # NoConn
    /\ Cardinality(held["p1"]) = 1
    /\ instances # 0
    /\ Current.activeConnections = 1
    /\ conn["p1"] \in SeqToSet(Current.connectionPool)

\* no idle connection and the limit reached
Exhausted ==
    /\ instances # 0
    /\ Current.connectionPool = <<>>
    /\ ~UnderLimit(Current)

\* C18: a getConnection call that waits on an exhausted pool ends after a
\* bounded wait when no handle is returned: it does not retry forever.
C18_WaitIsBounded ==
    \A p \in Procs :
        (pc[p] = "gc_wait" /\ Exhausted) ~> (pc[p] = "idle" \/ ~Exhausted)

\* every client has acquired its connection, used it and returned it
AllServed == \A p \in Procs : p \in started /\ pc[p] = "idle" /\ held[p] = {}

\* C19: with more clients than maxConnections on one session, each acquiring
\* one connection, running a query and returning the connection, every client
\* eventually obtains a connection and completes, under weak fairness.
C19_EveryClientCompletes == <>AllServed

\* a client waits because the other clients hold every connection
C19_Witness ==
    /\ started = Procs
    /\ Cardinality(Procs) > maxConnectionsPerInstance
    /\ \E p \in Procs : pc[p] = "gc_wait" /\ Exhausted

\* the call of p is between reading the registries and its finally block
InDiffAndApply(p) == pc[p] \in {"sync_run", "sync_await"}

\* C20: two syncDatasources calls on the same session are serialized: their
\* diff-and-apply phases never overlap.
C20_SyncsSerialized ==
    \A p, q \in PairProcs :
        (p # q /\ swrap[p] = swrap[q]) => ~(InDiffAndApply(p) /\ InDiffAndApply(q))

====
